---------------------------- MODULE Spec2Model ----------------------------
(***************************************************************************)
(* PyrusCrypt: in-place LUKS2 re-encryption pipeline with optional /boot   *)
(* partition creation and optional system integration (chroot + GRUB).     *)
(* Three front ends share the pipeline: boot.py (GUI, with createBoot),    *)
(* pyrus.py (GUI) and Tpyrus.py (terminal).                                *)
(*                                                                         *)
(* Strings that the code takes apart (device paths, partition numbers,     *)
(* the reduce-size entry) are sequences of characters; the prefix "/dev/"  *)
(* common to every path is kept as one element.                            *)
(***************************************************************************)
EXTENDS Integers, Sequences, FiniteSets, TLC

\* ------------------------------------------------------------------ bounds
\* Exit codes of an external command range over 0..MaxRc.
MaxRc == 1

\* ------------------------------------------------------------ text helpers
None == "None"

Digits == {"0", "1", "2", "3", "4", "5", "6", "7", "8", "9"}

\* Code point order of the characters that occur in device paths.
CharCode(c) ==
    CASE c = "/dev/" -> 0
      [] c = "/" -> 47
      [] c = "0" -> 48 [] c = "1" -> 49 [] c = "2" -> 50 [] c = "3" -> 51
      [] c = "4" -> 52 [] c = "5" -> 53 [] c = "6" -> 54 [] c = "7" -> 55
      [] c = "8" -> 56 [] c = "9" -> 57
      [] c = "a" -> 97 [] c = "b" -> 98 [] c = "c" -> 99 [] c = "d" -> 100
      [] c = "e" -> 101 [] c = "k" -> 107 [] c = "l" -> 108 [] c = "m" -> 109
      [] c = "n" -> 110 [] c = "o" -> 111 [] c = "p" -> 112 [] c = "r" -> 114
      [] c = "s" -> 115 [] c = "t" -> 116 [] c = "v" -> 118 [] c = "y" -> 121
      [] OTHER -> 127

\* Python's str < str: lexicographic on code points, a proper prefix is smaller.
RECURSIVE StrLess(_, _)
StrLess(a, b) ==
    IF b = <<>> THEN FALSE
    ELSE IF a = <<>> THEN TRUE
    ELSE IF CharCode(Head(a)) # CharCode(Head(b))
         THEN CharCode(Head(a)) < CharCode(Head(b))
         ELSE StrLess(Tail(a), Tail(b))

StartsWith(s, prefix) ==
    /\ Len(s) >= Len(prefix)
    /\ SubSeq(s, 1, Len(prefix)) = prefix

\* str.rstrip('0123456789')
RECURSIVE RStripDigits(_)
RStripDigits(s) ==
    IF s # <<>> /\ s[Len(s)] \in Digits
    THEN RStripDigits(SubSeq(s, 1, Len(s) - 1))
    ELSE s

\* The text matched by the regular expression (\d+)$, or the empty string.
TrailingDigits(s) == SubSeq(s, Len(RStripDigits(s)) + 1, Len(s))

\* re.sub(r"\d+$", "", s)
ReSubDigits(s) == RStripDigits(s)

\* re.sub(r"p\d+$", "", s): the match needs at least one digit after the "p".
ReSubPDigits(s) ==
    LET stem == RStripDigits(s)
    IN  IF Len(stem) < Len(s) /\ stem # <<>> /\ stem[Len(stem)] = "p"
        THEN SubSeq(stem, 1, Len(stem) - 1)
        ELSE s

\* str.strip() for the characters of an entry field (" " is the only blank).
RECURSIVE LStrip(_)
LStrip(s) == IF s # <<>> /\ Head(s) = " " THEN LStrip(Tail(s)) ELSE s

RECURSIVE RStrip(_)
RStrip(s) ==
    IF s # <<>> /\ s[Len(s)] = " " THEN RStrip(SubSeq(s, 1, Len(s) - 1)) ELSE s

Strip(s) == LStrip(RStrip(s))

\* int() of a string of decimal digits.
DigitVal(c) == CharCode(c) - 48

RECURSIVE ParseInt(_)
ParseInt(s) ==
    IF s = <<>> THEN 0
    ELSE 10 * ParseInt(SubSeq(s, 1, Len(s) - 1)) + DigitVal(s[Len(s)])

\* str() of a non-negative integer.
DigitChar(d) == CHOOSE c \in Digits : DigitVal(c) = d

RECURSIVE IntToStr(_)
IntToStr(n) ==
    IF n < 10 THEN <<DigitChar(n)>>
    ELSE Append(IntToStr(n \div 10), DigitChar(n % 10))

\* str(x).lower() for the filesystem type reported by lsblk (None gives "none").
StrLower(s) ==
    CASE s = "crypto_LUKS" -> "crypto_luks"
      [] s = "LUKS" -> "luks"
      [] s = None -> "none"
      [] OTHER -> s


\* ------------------------------------------------ device paths of the model
sda == <<"/dev/", "s", "d", "a">>
sda1 == <<"/dev/", "s", "d", "a", "1">>
sda2 == <<"/dev/", "s", "d", "a", "2">>
sdb == <<"/dev/", "s", "d", "b">>
nvme0n1 == <<"/dev/", "n", "v", "m", "e", "0", "n", "1">>
nvme0n1p1 == <<"/dev/", "n", "v", "m", "e", "0", "n", "1", "p", "1">>
nvme0n1p2 == <<"/dev/", "n", "v", "m", "e", "0", "n", "1", "p", "2">>
loop0 == <<"/dev/", "l", "o", "o", "p", "0">>
cryptroot == <<"/dev/", "m", "a", "p", "p", "e", "r", "/", "c", "r", "y", "p", "t", "r", "o", "o", "t">>
NoPath == <<>>

\* The name lsblk reports for a device: its path without "/dev/".
NameOf(path) == Tail(path)

\* One node of the tree that lsblk -J prints (NAME,TYPE,SIZE,PATH,MOUNTPOINT,FSTYPE).
\* A PATH that lsblk does not report is NoPath; a null mountpoint/fstype is None.
Node(name, type, size, path, mountpoint, fstype, children) ==
    [name |-> name, type |-> type, size |-> size, path |-> path,
     mountpoint |-> mountpoint, fstype |-> fstype, children |-> children]

\* ---------------------------------------------------------- Device Inventory
\* One entry of the list built by walk(): path defaults to /dev/<name>.
DeviceEntry(node) ==
    [path |-> IF node.path # NoPath THEN node.path ELSE <<"/dev/">> \o node.name,
     type |-> node.type, size |-> node.size,
     mountpoint |-> node.mountpoint, fstype |-> node.fstype]

\* walk(node): the node itself when it is a disk or a partition, then its children.
RECURSIVE Walk(_)
RECURSIVE WalkAll(_)
\* A walk that does not look below a node it skips.
WalkShallow(node) ==
    IF node.type \in {"disk", "part"} THEN <<DeviceEntry(node)>> \o WalkAll(node.children)
    ELSE <<>>

Walk(node) ==
    (IF node.type \in {"disk", "part"} THEN <<DeviceEntry(node)>> ELSE <<>>)
        \o WalkAll(node.children)
WalkAll(nodes) ==
    IF nodes = <<>> THEN <<>> ELSE Walk(Head(nodes)) \o WalkAll(Tail(nodes))

\* devices.sort(key=path): a stable sort.
RECURSIVE InsertByPath(_, _)
InsertByPath(sorted, d) ==
    IF sorted = <<>> THEN <<d>>
    ELSE IF StrLess(d.path, Head(sorted).path) THEN <<d>> \o sorted
    ELSE <<Head(sorted)>> \o InsertByPath(Tail(sorted), d)

RECURSIVE SortByPath(_)
SortByPath(ds) ==
    IF ds = <<>> THEN <<>>
    ELSE InsertByPath(SortByPath(SubSeq(ds, 1, Len(ds) - 1)), ds[Len(ds)])

\* list_block_devices(): the empty list when lsblk or the JSON parse fails.
list_block_devices(lsblkOk, tree) ==
    IF ~lsblkOk THEN <<>> ELSE SortByPath(WalkAll(tree))

PathsOf(ds) == {ds[i].path : i \in 1..Len(ds)}

\* _get_base_disk_from_device (boot.py)
get_base_disk_from_device(device_path) ==
    IF StartsWith(device_path, <<"/dev/", "n", "v", "m", "e">>)
       \/ StartsWith(device_path, <<"/dev/", "m", "m", "c", "b", "l", "k">>)
    THEN ReSubPDigits(device_path)
    ELSE ReSubDigits(device_path)

\* base_disk = device.rstrip('0123456789') (pyrus.py, Tpyrus.py)
rstrip_base_disk(device_path) == RStripDigits(device_path)

\* _get_partition_number: the trailing digits of the path, "" when there are none.
get_partition_number(dev_path) == TrailingDigits(dev_path)

\* ---------------------------------------------- Partition Table Inspector
\* The listing that `parted -m <disk> unit MiB print free` prints is a sequence of
\* lines, each the sequence of its ":"-separated fields.  The first field is text;
\* a size field is [hund, unit]: a number in hundredths and its suffix.
Size(mib) == [hund |-> 100 * mib, unit |-> "MiB"]
BytLine == << <<"B", "Y", "T", ";">> >>
HeaderLine(disk, size, label) == <<disk, size, "scsi", "512", "512", label, "model">>
PartLine(num, start, end, fs) == <<num, start, end, [hund |-> end.hund - start.hund, unit |-> "MiB"], fs, "", "">>
FreeLine(start, end) == << <<"1">>, start, end, [hund |-> end.hund - start.hund, unit |-> "MiB"], "free;">>

LineIsEmpty(line) == line = << <<>> >>
LineStartsWith(line, text) == StartsWith(line[1], text)
LineStartsWithDigit(line) == line[1] # <<>> /\ line[1][1] \in Digits

\* A reading of the listing that takes the end field whatever its unit.
RECURSIVE get_partition_end_any_unit(_, _, _)
get_partition_end_any_unit(lines, disk, part_num) ==
    IF lines = <<>> THEN -1
    ELSE LET line == Head(lines)
         IN  IF LineIsEmpty(line) \/ LineStartsWith(line, <<"B", "Y", "T", ";">>)
                \/ LineStartsWith(line, disk)
             THEN get_partition_end_any_unit(Tail(lines), disk, part_num)
             ELSE IF line[1] = part_num /\ Len(line) >= 3
                  THEN line[3].hund
                  ELSE get_partition_end_any_unit(Tail(lines), disk, part_num)

\* _get_partition_end_mib: the end (in hundredths of MiB) of the first line whose
\* first field is part_num and whose end field ends in "MiB"; -1 when it raises:
\* the loop ends without one (RuntimeError), or a line with that first field has
\* no third field (IndexError).
RECURSIVE get_partition_end_mib(_, _, _)
get_partition_end_mib(lines, disk, part_num) ==
    IF lines = <<>> THEN -1
    ELSE LET line == Head(lines)
         IN  IF LineIsEmpty(line) \/ LineStartsWith(line, <<"B", "Y", "T", ";">>)
                \/ LineStartsWith(line, disk)
             THEN get_partition_end_mib(Tail(lines), disk, part_num)
             ELSE IF line[1] = part_num /\ Len(line) < 3 THEN -1
             ELSE IF line[1] = part_num /\ line[3].unit = "MiB"
                  THEN line[3].hund
                  ELSE get_partition_end_mib(Tail(lines), disk, part_num)

\* _get_table_type_and_last_part: [table_type, max_part]; max_part is -1 for None.
RECURSIVE table_type_of(_, _, _)
table_type_of(lines, disk, acc) ==
    IF lines = <<>> THEN acc
    ELSE LET line == Head(lines)
         IN  table_type_of(Tail(lines), disk,
                 IF LineStartsWith(line, disk) /\ Len(line) >= 6 THEN line[6] ELSE acc)

RECURSIVE max_part_of(_, _, _)
max_part_of(lines, disk, acc) ==
    IF lines = <<>> THEN acc
    ELSE LET line == Head(lines)
             val == ParseInt(line[1])
         IN  max_part_of(Tail(lines), disk,
                 IF ~LineStartsWith(line, disk) /\ ~LineIsEmpty(line)
                    /\ LineStartsWithDigit(line)
                    /\ (\A i \in 1..Len(line[1]) : line[1][i] \in Digits)
                    /\ (acc = -1 \/ val > acc)
                 THEN val ELSE acc)

get_table_type_and_last_part(lines, disk) ==
    LET t == table_type_of(lines, disk, None)
    IN  [table_type |-> IF t = None THEN "unknown" ELSE t,
         last_part |-> max_part_of(lines, disk, -1)]

\* str(last_part): "None" cannot equal a string of digits.
StrOfLastPart(last_part) == IF last_part = -1 THEN <<"N", "o", "n", "e">> ELSE IntToStr(last_part)


\* ------------------------------------------------------------- the machines
\* What lsblk and parted see.  tree is lsblk's "blockdevices" array; tables maps
\* each disk that carries a partition table to its parted listing.
World1 ==
    [tree |-> << Node(NameOf(sda), "disk", "20G", sda, None, None,
                   << Node(NameOf(sda1), "part", "20G", sda1, "/", "ext4", <<>>) >>) >>,
     tables |-> (sda :> << BytLine, HeaderLine(sda, Size(20480), "gpt"),
                           PartLine(<<"1">>, Size(1), Size(20479), "ext4"),
                           FreeLine(Size(20479), Size(20480)) >>)]

World2 ==
    [tree |-> << Node(NameOf(sda), "disk", "20G", sda, None, None,
                   << Node(NameOf(sda1), "part", "10G", sda1, "/boot", "ext4", <<>>),
                      Node(NameOf(sda2), "part", "10G", sda2, "/data", "ext4", <<>>) >>),
                 Node(NameOf(loop0), "loop", "2G", loop0, "/", "squashfs", <<>>) >>,
     tables |-> (sda :> << BytLine, HeaderLine(sda, Size(20000), "msdos"),
                           PartLine(<<"1">>, Size(1), Size(10000), "ext4"),
                           PartLine(<<"2">>, Size(10000), Size(20000), "ext4") >>)]

World3 ==
    [tree |-> << Node(NameOf(sdb), "disk", "8G", sdb, None, "crypto_LUKS", <<>>),
                 Node(NameOf(sda), "disk", "20G", sda, None, None,
                   << Node(NameOf(sda1), "part", "20G", sda1, None, "crypto_LUKS",
                        << Node(NameOf(cryptroot), "crypt", "20G", cryptroot, "/", "ext4",
                                <<>>) >>) >>) >>,
     tables |-> (sda :> << BytLine, HeaderLine(sda, Size(20480), "gpt"),
                           FreeLine(Size(0), Size(1)),
                           PartLine(<<"1">>, Size(1), Size(20480), "") >>)]

World4 ==
    [tree |-> << Node(NameOf(nvme0n1), "disk", "30G", nvme0n1, None, None,
                   << Node(NameOf(nvme0n1p1), "part", "1G", nvme0n1p1, None, "vfat", <<>>),
                      Node(NameOf(nvme0n1p2), "part", "29G", NoPath, None, "ext4", <<>>) >>) >>,
     tables |-> (nvme0n1 :> << BytLine, HeaderLine(nvme0n1, Size(30000), "gpt"),
                               FreeLine(Size(0), Size(1)),
                               PartLine(<<"1">>, Size(1), Size(1000), "fat32"),
                               PartLine(<<"2">>, Size(1000), Size(30000), "ext4") >>)]

Worlds == {World1, World2, World3, World4}

FrontEnds == {"boot", "pyrus", "Tpyrus"}

\* A default other than the one the front ends use.
SmallerReduce == <<"1", "6", "M">>

\* What the operator may leave in the "Reduce device size" field.
ReduceInputs == {<<>>, <<" ", "6", "4", "M">>}
DefaultReduce == <<"3", "2", "M">>

\* Outcome of starting an external command: its exit code, or -1 when the
\* program cannot be started (Popen raises OSError).
Outcomes == (-1)..MaxRc

NoExc == [kind |-> "none", step |-> "", cmd |-> "", args |-> <<>>, rc |-> 0, to |-> ""]
NoCmd == [step |-> "", cmd |-> "", args |-> <<>>, check |-> FALSE, out |-> 0]
NoCfg ==
    [device |-> NoPath, reduce_input |-> <<>>, reduce_size |-> <<>>, run_fsck |-> FALSE,
     run_minimize |-> FALSE, run_boot |-> FALSE, run_chroot |-> FALSE]
NoPlan == [num_steps |-> 0, step_no |-> 0, value |-> 0]
NoCh ==
    [uuid |-> <<>>, parts |-> <<>>, idx |-> 0, boot_uuid |-> <<>>, efi_uuid |-> <<>>,
     root_mounted |-> FALSE]
NoCb ==
    [parts_before |-> <<>>, current |-> <<>>, fs_size |-> 0, base_disk |-> NoPath, is_luks |-> FALSE,
     shrink_target |-> NoPath, shrink_mountpoint |-> None, table_type |-> "",
     last_part |-> -1, remount_after |-> None, part_num |-> <<>>, new_end |-> 0,
     shrink_ret |-> "none", after |-> <<>>, detect_done |-> FALSE,
     new_boot |-> NoPath, boot_uuid |-> <<>>]

Truthy(mp) == mp # None /\ mp # ""

\* The answers to start() before any was given.
\* What the entry fields and getpass can hold: nothing, a passphrase, another one.
Passwords == {"", "s3cret", "other"}
NoAsk == [root |-> FALSE, sel |-> NoPath, p1 |-> "", p2 |-> "", tools |-> FALSE,
          mount_ok |-> None, confirm |-> FALSE, refused |-> ""]

VARIABLES
    frontEnd,      \* which program runs
    blockdevices,  \* the tree lsblk reports
    tables,        \* disk -> parted listing
    devices,       \* the device list shown to the operator
    runs,          \* pipeline runs launched so far (one run per window is modelled)
    pc,            \* position of the worker
    cfg,           \* arguments of _worker
    tmpfiles,      \* number of temporary key files on disk
    keyfile,       \* the worker's variable keyfile is set (not None)
    announced,     \* the "Paso k/n" announcements of this run, in order
    trace,         \* external commands of this run, in order
    last,          \* the most recent command and its outcome
    exc,           \* the exception being handled
    status,        \* idle, running, done, failed
    report,        \* the failure report shown to the operator
    logged,        \* markers of the messages written to the log sink
    plan,          \* num_steps, step_no, progress value (boot.py)
    start_btn,     \* the start control is enabled
    cb,            \* locals of create_boot_partition_if_missing
    ch,            \* locals of the system-integration step
    asked,         \* what the operator and the system answered to the last start()
    exit_code      \* exit status of the process, <<>> while it runs

vars == <<frontEnd, blockdevices, tables, devices, runs, pc, cfg, tmpfiles, keyfile,
          announced, trace, last, exc, status, report, logged, plan, start_btn, cb, ch,
          asked, exit_code>>

sys == <<blockdevices, tables>>
world == <<frontEnd, asked, exit_code, devices, sys>>
machine == <<frontEnd, asked, devices, sys>>
\* What neither create_boot_partition_if_missing nor the integration step assigns.
ctl == <<frontEnd, asked, exit_code, devices, runs, cfg, tmpfiles, keyfile, status, report, start_btn,
         plan, announced>>

Init ==
    /\ frontEnd \in FrontEnds
    /\ \E w \in Worlds, lsblkOk \in BOOLEAN :
          /\ blockdevices = w.tree
          /\ tables = w.tables
          /\ devices = list_block_devices(lsblkOk, w.tree)
    /\ runs = 0
    /\ pc = "idle"
    /\ cfg = NoCfg
    /\ tmpfiles = 0
    /\ keyfile = FALSE
    /\ announced = <<>>
    /\ trace = <<>>
    /\ last = NoCmd
    /\ exc = NoExc
    /\ status = "idle"
    /\ report = NoExc
    /\ logged = {}
    /\ plan = NoPlan
    /\ start_btn = TRUE
    /\ cb = NoCb
    /\ ch = NoCh
    /\ asked = NoAsk
    /\ exit_code = <<>>

\* steps.append(...) in _worker of boot.py; the other front ends announce the same
\* steps with fixed numbers.
StepsOf(c) ==
    (IF c.run_fsck THEN <<"fsck">> ELSE <<>>)
    \o (IF c.run_minimize THEN <<"minimize">> ELSE <<>>)
    \o (IF c.run_boot THEN <<"createBoot">> ELSE <<>>)
    \o <<"reencrypt">>
    \o (IF c.run_chroot THEN <<"systemIntegration">> ELSE <<>>)


\* refresh_devices: the warning label has a text when some listed device is mounted.
mount_warn(ds) == \E i \in 1..Len(ds) : Truthy(ds[i].mountpoint)

\* start() with the final confirmation dropped.
start_checks_NoConfirm(a, ds) ==
    IF ~a.root THEN "REFUSE_ROOT"
    ELSE IF a.sel = NoPath THEN "REFUSE_NO_DEVICE"
    ELSE IF a.p1 = "" THEN "REFUSE_EMPTY_PW"
    ELSE IF a.p1 # a.p2 THEN "REFUSE_PW_MISMATCH"
    ELSE IF mount_warn(ds) /\ a.mount_ok # "yes" THEN "REFUSE_MOUNTS"
    ELSE IF ~a.tools THEN "REFUSE_TOOL"
    ELSE ""

\* start() of the graphical front ends up to the launch of the worker: the first
\* check that fails shows a dialog and returns; "" when all of them pass.
start_checks(a, ds) ==
    IF ~a.root THEN "REFUSE_ROOT"
    ELSE IF a.sel = NoPath THEN "REFUSE_NO_DEVICE"
    ELSE IF a.p1 = "" THEN "REFUSE_EMPTY_PW"
    ELSE IF a.p1 # a.p2 THEN "REFUSE_PW_MISMATCH"
    ELSE IF mount_warn(ds) /\ a.mount_ok # "yes" THEN "REFUSE_MOUNTS"
    ELSE IF ~a.tools THEN "REFUSE_TOOL"
    ELSE IF ~a.confirm THEN "REFUSE_CONFIRM"
    ELSE ""

\* main() of the terminal front end up to the try block: require_root, the tool
\* checks and the empty inventory leave with status 1, a declined confirmation
\* with status 0.  The selection and passphrase prompts repeat until the answer
\* is acceptable, so they refuse nothing.
main_checks(a, ds) ==
    IF ~a.root THEN "REFUSE_ROOT"
    ELSE IF ~a.tools THEN "REFUSE_TOOL"
    ELSE IF ds = <<>> THEN "REFUSE_NO_DEVICE"
    ELSE IF ~a.confirm THEN "REFUSE_CONFIRM"
    ELSE ""

\* The answers start() / main() can read: the selection is an entry of the
\* read-only device list (the first one is preselected), empty only when the
\* list is; the terminal prompts return only once the number is valid and the
\* passphrase non-empty and confirmed.
Answers(fe, ds) ==
    {a \in [root : BOOLEAN,
            sel : IF ds = <<>> THEN {NoPath} ELSE PathsOf(ds),
            p1 : {"", "s3cret"}, p2 : Passwords, tools : BOOLEAN,
            mount_ok : IF fe # "Tpyrus" /\ mount_warn(ds) THEN {"yes", "no"} ELSE {None},
            confirm : BOOLEAN, refused : {""}] :
        fe = "Tpyrus" => (a.p1 # "" /\ a.p1 = a.p2)}

\* A start() that launches the worker and leaves the start control as it is.
start_btn_left_enabled(fe) == TRUE

\* self.start_btn.configure(state=tk.DISABLED), just before the thread is
\* started; the terminal front end has no such control (kept enabled).
start_btn_on_launch(fe) == fe = "Tpyrus"

\* start() / main(): the checks, then the operator's choices become the worker's
\* arguments, the start control is disabled and the worker is launched.  The
\* button is the only way into start(); main() runs once, from its first line.
Start ==
    /\ frontEnd = "Tpyrus" => pc = "idle"
    /\ frontEnd # "Tpyrus" => start_btn
    /\ runs = 0
    /\ \E a \in Answers(frontEnd, devices) :
          LET why == IF frontEnd = "Tpyrus" THEN main_checks(a, devices)
                     ELSE start_checks(a, devices)
          IN  IF why # ""
              THEN /\ asked' = [a EXCEPT !.refused = why]
                   /\ exit_code' = IF frontEnd # "Tpyrus" THEN exit_code
                                   ELSE IF why = "REFUSE_CONFIRM" THEN <<0>> ELSE <<1>>
                   /\ pc' = IF frontEnd = "Tpyrus" THEN "exited" ELSE pc
                   /\ UNCHANGED <<cfg, runs, start_btn, status>>
              ELSE /\ asked' = a
                   /\ \E r \in ReduceInputs, f \in BOOLEAN, m \in BOOLEAN,
                         b \in IF frontEnd = "boot" THEN BOOLEAN ELSE {FALSE},
                         c \in BOOLEAN :
                         cfg' = [device |-> a.sel, reduce_input |-> r,
                                 reduce_size |-> IF Strip(r) # <<>> THEN Strip(r)
                                                 ELSE DefaultReduce,
                                 run_fsck |-> f, run_minimize |-> m, run_boot |-> b,
                                 run_chroot |-> c]
                   /\ runs' = runs + 1
                   /\ start_btn' = start_btn_on_launch(frontEnd)
                   /\ pc' = IF frontEnd = "boot" THEN "w_plan" ELSE "w_mktemp"
                   /\ status' = "running"
                   /\ UNCHANGED exit_code
    /\ trace' = <<>>
    /\ last' = NoCmd
    /\ exc' = NoExc
    /\ report' = NoExc
    /\ logged' = {}
    /\ announced' = <<>>
    /\ plan' = NoPlan
    /\ keyfile' = FALSE
    /\ cb' = NoCb
    /\ ch' = NoCh
    /\ UNCHANGED <<frontEnd, devices, sys, tmpfiles>>

\* ------------------------------------------------- effects on the machine
PathOfNode(n) == DeviceEntry(n).path

\* The tree with the mountpoint of the device at path set to mp.
RECURSIVE SetMount(_, _, _)
SetMount(nodes, path, mp) ==
    [i \in 1..Len(nodes) |->
        [nodes[i] EXCEPT !.mountpoint = IF PathOfNode(nodes[i]) = path THEN mp ELSE @,
                         !.children = SetMount(@, path, mp)]]

\* The tree with the filesystem type of the device at path set to fs.
RECURSIVE SetFstype(_, _, _)
SetFstype(nodes, path, fs) ==
    [i \in 1..Len(nodes) |->
        [nodes[i] EXCEPT !.fstype = IF PathOfNode(nodes[i]) = path THEN fs ELSE @,
                         !.children = SetFstype(@, path, fs)]]

\* The partition the kernel names next on a disk that has partitions up to n.
NextPartPath(disk, n) ==
    disk \o (IF disk[Len(disk)] \in Digits THEN <<"p">> ELSE <<>>) \o IntToStr(n + 1)

\* The tree with a new, unformatted partition under the disk.
AddPart(nodes, disk, path) ==
    [i \in 1..Len(nodes) |->
        IF PathOfNode(nodes[i]) = disk
        THEN [nodes[i] EXCEPT !.children =
                 Append(@, Node(NameOf(path), "part", "1G", path, None, None, <<>>))]
        ELSE nodes[i]]

\* The listing after partition num was resized to end at new_end (hundredths).
RECURSIVE ResizeLine(_, _, _)
ResizeLine(lines, num, new_end) ==
    IF lines = <<>> THEN <<>>
    ELSE LET line == Head(lines)
         IN  IF LineStartsWithDigit(line) /\ Len(line) >= 5 /\ line[5] # "free;"
                /\ ParseInt(line[1]) = num
             THEN << [line EXCEPT ![3] = [hund |-> new_end, unit |-> "MiB"],
                                  ![4] = [hund |-> new_end - line[2].hund, unit |-> "MiB"]],
                     FreeLine([hund |-> new_end, unit |-> "MiB"], line[3]) >>
                  \o Tail(lines)
             ELSE <<line>> \o ResizeLine(Tail(lines), num, new_end)

\* The highest partition number of a listing, 0 when it has no partition.
IsPartLine(line) ==
    LineStartsWithDigit(line) /\ Len(line) >= 5 /\ line[5] # "free;"
PartNums(lines) == {ParseInt(lines[i][1]) : i \in {j \in 1..Len(lines) : IsPartLine(lines[j])}}
RealLastPart(lines) ==
    IF PartNums(lines) = {} THEN 0
    ELSE CHOOSE m \in PartNums(lines) : \A k \in PartNums(lines) : k <= m

\* create_boot_partition_if_missing called without the try/except around it.
HandlerOfUnguarded(ctx, kind) ==
    CASE ctx = "shrink" -> "sh_except"
      [] ctx = "mkpart" /\ kind = "cpe" -> "cb_mkpart_failed"
      [] ctx = "blkid" -> "cb_blkid_failed"
      [] OTHER -> IF kind = "cpe" THEN "w_except_cpe" ELSE "w_except_exc"

\* A Shrink Planner whose except clause names CalledProcessError only.
HandlerOfShrinkCpeOnly(ctx, kind) ==
    CASE ctx = "shrink" -> IF kind = "cpe" THEN "sh_except" ELSE "w_boot_warn"
      [] ctx = "boot" -> "w_boot_warn"
      [] ctx = "mkpart" -> IF kind = "cpe" THEN "cb_mkpart_failed" ELSE "w_boot_warn"
      [] ctx = "blkid" -> "cb_blkid_failed"
      [] OTHER -> IF kind = "cpe" THEN "w_except_cpe" ELSE "w_except_exc"

\* ---------------------------------------------------------- Process Runner
\* Where an exception raised in context ctx is caught.
HandlerOf(ctx, kind) ==
    CASE ctx = "shrink" -> "sh_except"
      [] ctx = "boot" -> "w_boot_warn"
      [] ctx = "mkpart" -> IF kind = "cpe" THEN "cb_mkpart_failed" ELSE "w_boot_warn"
      [] ctx = "blkid" -> "cb_blkid_failed"
      [] OTHER -> IF kind = "cpe" THEN "w_except_cpe" ELSE "w_except_exc"

\* The function a command is run by.
FnOf(ctx) ==
    CASE ctx = "shrink" -> "_shrink_partition_free_space"
      [] ctx \in {"boot", "mkpart", "blkid"} -> "create_boot_partition_if_missing"
      [] OTHER -> "_worker"

\* raise: control goes to the handler with the exception.
Raise(ctx, kind, st, cmd, args, rc) ==
    /\ pc' = HandlerOf(ctx, kind)
    /\ exc' = [kind |-> kind, step |-> st, cmd |-> cmd, args |-> args, rc |-> rc,
               to |-> HandlerOf(ctx, kind)]

\* The front ends refuse to start unless cryptsetup, lsblk, e2fsck and resize2fs
\* are installed; mount, umount, mkdir, cp, bash and chroot belong to the base
\* system.  Any other tool may be missing, and then Popen raises.
MayBeMissing(cmd) ==
    cmd \in {"parted print", "parted resizepart", "parted mkpart", "partprobe",
             "udevadm settle", "mkfs.ext4", "blkid"}

\* A runner that returns the exit code whatever check says.
run_and_stream_never_checks(out, st, cmd, args, check, ctx, next) ==
    /\ out = -1 => MayBeMissing(cmd)
    /\ trace' = Append(trace, [step |-> st, fn |-> FnOf(ctx), cmd |-> cmd, args |-> args,
                               check |-> check, started |-> out # -1,
                               failed |-> check /\ out \notin {0, -1}])
    /\ last' = [step |-> st, cmd |-> cmd, args |-> args, check |-> check, out |-> out]
    /\ IF out = -1 THEN Raise(ctx, "exc", st, cmd, args, out)
       ELSE pc' = next /\ exc' = exc

\* A runner that raises on every non-zero exit, whatever check says.
run_and_stream_always_checks(out, st, cmd, args, check, ctx, next) ==
    /\ out = -1 => MayBeMissing(cmd)
    /\ trace' = Append(trace, [step |-> st, fn |-> FnOf(ctx), cmd |-> cmd, args |-> args,
                               check |-> check, started |-> out # -1,
                               failed |-> check /\ out \notin {0, -1}])
    /\ last' = [step |-> st, cmd |-> cmd, args |-> args, check |-> check, out |-> out]
    /\ IF out = -1 THEN Raise(ctx, "exc", st, cmd, args, out)
       ELSE IF out # 0 THEN Raise(ctx, "cpe", st, cmd, args, out)
       ELSE pc' = next /\ exc' = exc

\* run_and_stream(cmd, log_cb, check): log the command, start it, drain its
\* output, wait; raise CalledProcessError when check and rc != 0.
run_and_stream(out, st, cmd, args, check, ctx, next) ==
    /\ out = -1 => MayBeMissing(cmd)
    /\ trace' = Append(trace, [step |-> st, fn |-> FnOf(ctx), cmd |-> cmd, args |-> args,
                               check |-> check, started |-> out # -1,
                               failed |-> check /\ out \notin {0, -1}])
    /\ last' = [step |-> st, cmd |-> cmd, args |-> args, check |-> check, out |-> out]
    /\ IF out = -1 THEN Raise(ctx, "exc", st, cmd, args, out)
       ELSE IF check /\ out # 0 THEN Raise(ctx, "cpe", st, cmd, args, out)
       ELSE pc' = next /\ exc' = exc

\* subprocess.check_output(cmd): always strict.
check_output(out, st, cmd, args, ctx, next) ==
    run_and_stream(out, st, cmd, args, TRUE, ctx, next)

\* An lsblk query made by the worker is an external command too.
LsblkCall(st) ==
    [step |-> st, fn |-> FnOf(IF st = "createBoot" THEN "boot" ELSE "worker"),
     cmd |-> "lsblk", args |-> <<>>, check |-> TRUE, started |-> TRUE,
     failed |-> FALSE]

\* next((p for p in ds if ...), None): the first entry among those at the
\* positions idxs, as a sequence of length at most one.
FirstAt(ds, idxs) ==
    IF idxs = {} THEN <<>>
    ELSE <<ds[CHOOSE i \in idxs : \A j \in idxs : i <= j]>>


\* ------------------------------------------------------ Reencryption Pipeline
\* boot.py 504-515: the step list and the progress accounting.
W_Plan ==
    /\ pc = "w_plan"
    /\ plan' = [num_steps |-> Len(StepsOf(cfg)), step_no |-> 1, value |-> 0]
    /\ pc' = "w_mktemp"
    /\ UNCHANGED <<world, runs, cfg, tmpfiles, keyfile, announced, trace, last, exc, status,
                   report, logged, start_btn, cb, ch>>

\* tf = tempfile.NamedTemporaryFile(delete=False)
W_MkTemp ==
    /\ pc = "w_mktemp"
    /\ \E ok \in BOOLEAN :
          IF ok THEN tmpfiles' = tmpfiles + 1 /\ pc' = "w_writekey" /\ exc' = exc
          ELSE tmpfiles' = tmpfiles /\ Raise("worker", "exc", "", "mkstemp", <<>>, 0)
    /\ UNCHANGED <<world, runs, cfg, keyfile, announced, trace, last, status, report,
                   logged, plan, start_btn, cb, ch>>

\* tf.write(password.encode()); tf.flush(); tf.close(); keyfile = tf.name
W_WriteKey ==
    /\ pc = "w_writekey"
    /\ \E ok \in BOOLEAN :
          IF ok THEN keyfile' = TRUE /\ pc' = "w_fsck" /\ exc' = exc
          ELSE keyfile' = keyfile /\ Raise("worker", "exc", "", "write", <<>>, 0)
    /\ UNCHANGED <<world, runs, cfg, tmpfiles, announced, trace, last, status, report,
                   logged, plan, start_btn, cb, ch>>

\* An accounting that moves the bar and leaves the step number alone.
AdvanceBarOnly(p) ==
    IF frontEnd = "boot"
    THEN [p EXCEPT !.value = @ + 100]
    ELSE p

\* current_progress += progress_increment; step_no += 1 (boot.py only)
Advance(p) ==
    IF frontEnd = "boot"
    THEN [p EXCEPT !.value = @ + 100, !.step_no = @ + 1]
    ELSE p

\* append_log("== Paso k/n: ... =="): boot.py counts the enabled steps, the other
\* front ends print fixed numbers out of 4.
Announce(name, fixed) ==
    Append(announced,
           IF frontEnd = "boot"
           THEN [name |-> name, k |-> plan.step_no, n |-> plan.num_steps]
           ELSE [name |-> name, k |-> fixed, n |-> 4])

\* if run_fsck: e2fsck -f -y device
W_Fsck ==
    /\ pc = "w_fsck"
    /\ IF cfg.run_fsck
       THEN /\ announced' = Announce("fsck", 1)
            /\ \E out \in Outcomes :
                  /\ run_and_stream(out, "fsck", "e2fsck -f -y", <<cfg.device>>, TRUE,
                                    "worker", "w_minimize")
                  /\ plan' = IF out = 0 THEN Advance(plan) ELSE plan
       ELSE /\ pc' = "w_minimize"
            /\ UNCHANGED <<announced, trace, last, exc, plan>>
    /\ UNCHANGED <<world, runs, cfg, tmpfiles, keyfile, status, report, logged, start_btn, cb, ch>>

\* if run_minimize: resize2fs -M device
W_Minimize ==
    /\ pc = "w_minimize"
    /\ IF cfg.run_minimize
       THEN /\ announced' = Announce("minimize", 2)
            /\ \E out \in Outcomes :
                  /\ run_and_stream(out, "minimize", "resize2fs -M", <<cfg.device>>, TRUE,
                                    "worker", "w_boot")
                  /\ plan' = IF out = 0 THEN Advance(plan) ELSE plan
       ELSE /\ pc' = "w_boot"
            /\ UNCHANGED <<announced, trace, last, exc, plan>>
    /\ UNCHANGED <<world, runs, cfg, tmpfiles, keyfile, status, report, logged, start_btn, cb, ch>>

\* cryptsetup reencrypt --batch-mode --encrypt --type luks2 --hash sha256
\*   --pbkdf pbkdf2 --reduce-device-size <reduce_size> --key-file <keyfile> <device>
W_Reencrypt ==
    /\ pc = "w_reencrypt"
    /\ announced' = Announce("reencrypt", 3)
    /\ \E out \in Outcomes :
          /\ run_and_stream(out, "reencrypt", "cryptsetup reencrypt",
                            <<cfg.reduce_size, cfg.device>>, TRUE, "worker", "w_chroot")
          /\ plan' = IF out = 0 THEN Advance(plan) ELSE plan
          /\ blockdevices' = IF out = 0
                             THEN SetFstype(blockdevices, cfg.device, "crypto_LUKS")
                             ELSE blockdevices
    /\ UNCHANGED <<frontEnd, asked, exit_code, devices, tables, runs, cfg, tmpfiles, keyfile, status, report, logged, start_btn, cb, ch>>

\* A report that names the program but drops its arguments.
W_ExceptCPE_NoArgs ==
    /\ pc = "w_except_cpe"
    /\ logged' = logged \cup {"ERR_CMD"}
    /\ report' = [exc EXCEPT !.args = <<>>]
    /\ status' = "failed"
    /\ exit_code' = IF frontEnd = "Tpyrus" THEN <<1>> ELSE exit_code
    /\ pc' = "w_finally"
    /\ UNCHANGED <<machine, runs, cfg, tmpfiles, keyfile, announced, trace, last, exc, plan,
                   start_btn, cb, ch>>

\* The first except clause: a strict command exited non-zero.
W_ExceptCPE ==
    /\ pc = "w_except_cpe"
    /\ logged' = logged \cup {"ERR_CMD"}
    /\ report' = exc
    /\ status' = "failed"
    /\ exit_code' = IF frontEnd = "Tpyrus" THEN <<1>> ELSE exit_code
    /\ pc' = "w_finally"
    /\ UNCHANGED <<machine, runs, cfg, tmpfiles, keyfile, announced, trace, last, exc, plan,
                   start_btn, cb, ch>>

\* A second except clause that logs with the marker of the first.
W_ExceptExc_SameMarker ==
    /\ pc = "w_except_exc"
    /\ logged' = logged \cup {"ERR_CMD"}
    /\ report' = exc
    /\ status' = "failed"
    /\ exit_code' = IF frontEnd = "Tpyrus" THEN <<1>> ELSE exit_code
    /\ pc' = "w_finally"
    /\ UNCHANGED <<machine, runs, cfg, tmpfiles, keyfile, announced, trace, last, exc, plan,
                   start_btn, cb, ch>>

\* A second except clause that reports the exception and lets main() return.
W_ExceptExc_NoExit ==
    /\ pc = "w_except_exc"
    /\ logged' = logged \cup {"ERR_UNEXPECTED"}
    /\ report' = exc
    /\ status' = "failed"
    /\ pc' = "w_finally"
    /\ UNCHANGED <<world, runs, cfg, tmpfiles, keyfile, announced, trace, last, exc, plan,
                   start_btn, cb, ch>>

\* The second except clause: any other exception.
W_ExceptExc ==
    /\ pc = "w_except_exc"
    /\ logged' = logged \cup {"ERR_UNEXPECTED"}
    /\ report' = exc
    /\ status' = "failed"
    /\ exit_code' = IF frontEnd = "Tpyrus" THEN <<1>> ELSE exit_code
    /\ pc' = "w_finally"
    /\ UNCHANGED <<machine, runs, cfg, tmpfiles, keyfile, announced, trace, last, exc, plan,
                   start_btn, cb, ch>>

\* progress = 100; "Proceso completado correctamente."
W_Done ==
    /\ pc = "w_done"
    /\ logged' = logged \cup {"OK_DONE"}
    /\ status' = "done"
    /\ plan' = IF frontEnd = "boot" THEN [plan EXCEPT !.value = 100 * plan.num_steps]
               ELSE plan
    /\ pc' = "w_finally"
    /\ UNCHANGED <<world, runs, cfg, tmpfiles, keyfile, announced, trace, last, exc, report,
                   start_btn, cb, ch>>

\* finally: if keyfile and os.path.exists(keyfile): os.remove(keyfile); the GUI
\* resets the progress bar and enables the start control; the terminal front end
\* then leaves the process.
W_Finally ==
    /\ pc = "w_finally"
    /\ tmpfiles' = IF keyfile /\ tmpfiles > 0 THEN tmpfiles - 1 ELSE tmpfiles
    /\ plan' = IF frontEnd = "boot" THEN [plan EXCEPT !.value = 0] ELSE plan
    /\ start_btn' = TRUE
    /\ exit_code' = IF frontEnd = "Tpyrus" /\ exit_code = <<>> THEN <<0>> ELSE exit_code
    /\ pc' = IF frontEnd = "Tpyrus" THEN "exited" ELSE "idle"
    /\ UNCHANGED <<machine, runs, cfg, keyfile, announced, trace, last, exc, status, report,
                   logged, cb, ch>>

\* A worker in which disabling createBoot also skips the reencryption.
W_BootSkipsReencrypt ==
    /\ pc = "w_boot"
    /\ IF cfg.run_boot
       THEN announced' = Announce("createBoot", 3) /\ pc' = "cb_begin"
       ELSE announced' = announced /\ pc' = "w_chroot"
    /\ UNCHANGED <<world, runs, cfg, tmpfiles, keyfile, trace, last, exc, status, report,
                   logged, plan, start_btn, cb, ch>>

\* --------------------------------------------------- Boot Partition Creator
\* if run_boot: announce the step and call create_boot_partition_if_missing.
W_Boot ==
    /\ pc = "w_boot"
    /\ IF cfg.run_boot
       THEN announced' = Announce("createBoot", 3) /\ pc' = "cb_begin"
       ELSE announced' = announced /\ pc' = "w_reencrypt"
    /\ UNCHANGED <<world, runs, cfg, tmpfiles, keyfile, trace, last, exc, status, report,
                   logged, plan, start_btn, cb, ch>>

\* except Exception around create_boot_partition_if_missing: a warning.
W_BootWarn ==
    /\ pc = "w_boot_warn"
    /\ logged' = logged \cup {"WARN_BOOT"}
    /\ pc' = "w_boot_done"
    /\ UNCHANGED <<world, runs, cfg, tmpfiles, keyfile, announced, trace, last, exc,
                   status, report, plan, start_btn, cb, ch>>

\* Once create_boot_partition_if_missing has returned, its locals are gone; the
\* history keeps one entry for the commands of the finished step and one marker
\* for the errors it logged.
BootSummary ==
    [step |-> "createBoot", fn |-> "_worker", cmd |-> "create_boot_partition_if_missing",
     args |-> <<>>, check |-> FALSE, started |-> TRUE, failed |-> FALSE]
FoldBootTrace(t) == SelectSeq(t, LAMBDA c : c.step # "createBoot") \o <<BootSummary>>
BootErrors ==
    {"ERR_ROOT_MOUNTED", "ERR_SHRINK", "ERR_NOT_LAST", "ERR_NO_PARTNUM", "ERR_MKPART",
     "ERR_MKPART_LUKS", "ERR_NOT_DETECTED", "ERR_UUID"}
FoldBootLog(l) ==
    (l \cap {"WARN_BOOT", "OK_BOOT"}) \cup (IF l \cap BootErrors # {} THEN {"ERR_BOOT"} ELSE {})

\* The progress accounting that ends the createBoot step.
W_BootDone ==
    /\ pc = "w_boot_done"
    /\ plan' = Advance(plan)
    /\ pc' = "w_reencrypt"
    /\ trace' = FoldBootTrace(trace)
    /\ logged' = FoldBootLog(logged)
    /\ cb' = NoCb
    /\ last' = NoCmd
    /\ exc' = NoExc
    /\ UNCHANGED <<world, runs, cfg, tmpfiles, keyfile, announced, status, report,
                   start_btn, ch>>

\* boot.py 109-118: parts_before, base_disk, is_luks.
CB_Begin ==
    /\ pc = "cb_begin"
    /\ \E ok \in BOOLEAN :
          LET before == list_block_devices(ok, blockdevices)
              info == FirstAt(before, {i \in 1..Len(before) : before[i].path = cfg.device})
              fstype == IF info = <<>> THEN None ELSE info[1].fstype
              luks == StrLower(fstype) \in {"crypto_luks", "luks"}
          IN  /\ cb' = [cb EXCEPT !.parts_before = before,
                                  !.base_disk = get_base_disk_from_device(cfg.device),
                                  !.is_luks = luks,
                                  !.shrink_target = cfg.device]
              /\ logged' = IF luks THEN logged \cup {"INFO_LUKS"} ELSE logged
              /\ trace' = Append(trace, LsblkCall("createBoot"))
    /\ pc' = "cb_candidate"
    /\ UNCHANGED <<ctl, sys, last, exc, ch>>

\* A choice that never looks for the partition mounted at "/".
CB_Candidate_TargetOnly ==
    /\ pc = "cb_candidate"
    /\ \E ok \in BOOLEAN :
          LET current == list_block_devices(ok, blockdevices)
              own == FirstAt(current, {i \in 1..Len(current) :
                                 current[i].path = cfg.device
                                 /\ Truthy(current[i].mountpoint)})
          IN  /\ cb' = IF own # <<>>
                       THEN [cb EXCEPT !.current = current,
                                       !.shrink_mountpoint = own[1].mountpoint]
                       ELSE [cb EXCEPT !.current = current]
              /\ trace' = Append(trace, LsblkCall("createBoot"))
    /\ pc' = "cb_tableinfo"
    /\ UNCHANGED <<ctl, sys, last, exc, logged, ch>>

\* boot.py 198-216: the shrink candidate and its mountpoint.
CB_Candidate ==
    /\ pc = "cb_candidate"
    /\ \E ok \in BOOLEAN :
          LET current == list_block_devices(ok, blockdevices)
              root == FirstAt(current, {i \in 1..Len(current) :
                                 current[i].mountpoint = "/" /\ current[i].type = "part"})
              own == FirstAt(current, {i \in 1..Len(current) :
                                 current[i].path = cfg.device
                                 /\ Truthy(current[i].mountpoint)})
          IN  /\ cb' = IF root # <<>>
                       THEN [cb EXCEPT !.current = current,
                                       !.shrink_target = root[1].path,
                                       !.shrink_mountpoint = "/"]
                       ELSE IF own # <<>>
                            THEN [cb EXCEPT !.current = current,
                                            !.shrink_mountpoint = own[1].mountpoint]
                            ELSE [cb EXCEPT !.current = current]
              /\ trace' = Append(trace, LsblkCall("createBoot"))
    /\ pc' = "cb_tableinfo"
    /\ UNCHANGED <<ctl, sys, last, exc, logged, ch>>

\* parted exits 0 on a disk only if the disk carries a partition table.
PartedPrintOk(out, disk) == out = 0 => disk \in DOMAIN tables

\* boot.py 219-220: table type and last partition, for the log.
CB_TableInfo ==
    /\ pc = "cb_tableinfo"
    /\ \E out \in Outcomes :
          /\ PartedPrintOk(out, cb.base_disk)
          /\ check_output(out, "createBoot", "parted print", <<cb.base_disk>>, "boot",
                          "cb_shrink_or_skip")
          /\ cb' = IF out = 0
                   THEN LET t == get_table_type_and_last_part(tables[cb.base_disk],
                                                              cb.base_disk)
                        IN  [cb EXCEPT !.table_type = t.table_type,
                                       !.last_part = t.last_part]
                   ELSE cb
    /\ UNCHANGED <<ctl, sys, logged, ch>>

\* boot.py 222-226: shrink first unless the target is a LUKS container.
CB_ShrinkOrSkip ==
    /\ pc = "cb_shrink_or_skip"
    /\ IF ~cb.is_luks
       THEN pc' = "sh_begin" /\ logged' = logged
       ELSE pc' = "cb_mkpart" /\ logged' = logged \cup {"INFO_SKIP_SHRINK"}
    /\ UNCHANGED <<ctl, sys, trace, last, exc, cb, ch>>

\* A Shrink Planner that unmounts whatever is mounted, the root included.
SH_BeginNoRootCheck ==
    /\ pc = "sh_begin"
    /\ pc' = IF Truthy(cb.shrink_mountpoint) THEN "sh_umount" ELSE "sh_fsck"
    /\ UNCHANGED <<ctl, sys, trace, last, exc, logged, cb, ch>>

\* ------------------------------------------------------------ Shrink Planner
\* boot.py 160-166: refuse the live root; otherwise unmount first when mounted.
SH_Begin ==
    /\ pc = "sh_begin"
    /\ IF Truthy(cb.shrink_mountpoint)
       THEN IF cb.shrink_mountpoint = "/"
            THEN /\ logged' = logged \cup {"ERR_ROOT_MOUNTED"}
                 /\ cb' = [cb EXCEPT !.shrink_ret = "false"]
                 /\ pc' = "cb_mkpart"
            ELSE logged' = logged /\ cb' = cb /\ pc' = "sh_umount"
       ELSE logged' = logged /\ cb' = cb /\ pc' = "sh_fsck"
    /\ UNCHANGED <<ctl, sys, trace, last, exc, ch>>

\* boot.py 167-169: umount dev_path; remount_after = current_mountpoint.
SH_Umount ==
    /\ pc = "sh_umount"
    /\ \E out \in Outcomes :
          /\ run_and_stream(out, "createBoot", "umount", <<cb.shrink_target>>, TRUE,
                            "shrink", "sh_fsck")
          /\ cb' = IF out = 0 THEN [cb EXCEPT !.remount_after = cb.shrink_mountpoint]
                   ELSE cb
          /\ blockdevices' = IF out = 0 THEN SetMount(blockdevices, cb.shrink_target, None)
                             ELSE blockdevices
    /\ UNCHANGED <<ctl, tables, logged, ch>>

\* A Shrink Planner that goes on whatever e2fsck exits with.
SH_Fsck_Lenient ==
    /\ pc = "sh_fsck"
    /\ \E out \in Outcomes :
          run_and_stream(out, "createBoot", "e2fsck -f -y", <<cb.shrink_target>>, FALSE,
                         "shrink", "sh_resize2fs")
    /\ UNCHANGED <<ctl, sys, logged, cb, ch>>

\* boot.py 171: e2fsck -f -y dev_path
SH_Fsck ==
    /\ pc = "sh_fsck"
    /\ \E out \in Outcomes :
          run_and_stream(out, "createBoot", "e2fsck -f -y", <<cb.shrink_target>>, TRUE,
                         "shrink", "sh_resize2fs")
    /\ UNCHANGED <<ctl, sys, logged, cb, ch>>

\* What the minimized filesystem of a device occupies, in hundredths of MiB: it
\* depends on the data the filesystem holds.  /dev/sda2 is nearly full.
Footprint(path) == IF path = sda2 THEN 100 * 9500 ELSE 100 * 500

\* boot.py 172: resize2fs -M dev_path; on success the filesystem has its minimum
\* size.
SH_Resize2fs ==
    /\ pc = "sh_resize2fs"
    /\ \E out \in Outcomes :
          /\ run_and_stream(out, "createBoot", "resize2fs -M", <<cb.shrink_target>>, TRUE,
                            "shrink", "sh_partnum")
          /\ cb' = IF out = 0 THEN [cb EXCEPT !.fs_size = Footprint(cb.shrink_target)]
                   ELSE cb
    /\ UNCHANGED <<ctl, sys, logged, ch>>

\* boot.py 174-177: the partition number from the path.
SH_PartNum ==
    /\ pc = "sh_partnum"
    /\ LET n == get_partition_number(cb.shrink_target)
       IN  IF n = <<>>
           THEN /\ logged' = logged \cup {"ERR_NO_PARTNUM"}
                /\ cb' = [cb EXCEPT !.part_num = n, !.shrink_ret = "false"]
                /\ pc' = "cb_mkpart"
           ELSE /\ logged' = logged
                /\ cb' = [cb EXCEPT !.part_num = n]
                /\ pc' = "sh_lastpart"
    /\ UNCHANGED <<ctl, sys, trace, last, exc, ch>>

\* A Shrink Planner that never refuses a partition for its position.
NeverRefuse(part_num, last_part) == FALSE

\* The comparison str(part_num) != str(last_part).
NotLastPartition(part_num, last_part) == part_num # StrOfLastPart(last_part)

\* boot.py 178-181: refuse unless the candidate is the disk's last partition.
SH_LastPart ==
    /\ pc = "sh_lastpart"
    /\ \E out \in Outcomes :
          /\ PartedPrintOk(out, cb.base_disk)
          /\ LET t == get_table_type_and_last_part(tables[cb.base_disk], cb.base_disk)
                 refuse == out = 0 /\ NotLastPartition(cb.part_num, t.last_part)
             IN  /\ check_output(out, "createBoot", "parted print", <<cb.base_disk>>,
                                 "shrink", IF refuse THEN "cb_mkpart" ELSE "sh_end")
                 /\ cb' = IF out # 0 THEN cb
                          ELSE [cb EXCEPT !.table_type = t.table_type,
                                          !.last_part = t.last_part,
                                          !.shrink_ret = IF refuse THEN "false" ELSE @]
                 /\ logged' = IF refuse THEN logged \cup {"ERR_NOT_LAST"} ELSE logged
    /\ UNCHANGED <<ctl, sys, ch>>

\* new_end = max(1.0, current_end - 1050.0), in hundredths of MiB.
ReservedTail == 1050
NewEnd(current_end) ==
    IF current_end - 100 * ReservedTail > 100 THEN current_end - 100 * ReservedTail ELSE 100

\* boot.py 182-183: the current end of the partition and the new end.
SH_End ==
    /\ pc = "sh_end"
    /\ \E out \in Outcomes :
          /\ PartedPrintOk(out, cb.base_disk)
          /\ LET e == IF out = 0
                      THEN get_partition_end_mib(tables[cb.base_disk], cb.base_disk,
                                                 cb.part_num)
                      ELSE -1
             IN  /\ trace' = Append(trace, [step |-> "createBoot", fn |-> FnOf("shrink"),
                                            cmd |-> "parted print",
                                            args |-> <<cb.base_disk>>, check |-> TRUE,
                                            started |-> out # -1,
                                            failed |-> out \notin {0, -1}])
                 /\ last' = [step |-> "createBoot", cmd |-> "parted print",
                             args |-> <<cb.base_disk>>, check |-> TRUE, out |-> out]
                 /\ IF out # 0
                    THEN /\ Raise("shrink", IF out = -1 THEN "exc" ELSE "cpe", "createBoot",
                                  "parted print", <<cb.base_disk>>, out)
                         /\ cb' = cb
                    ELSE IF e = -1
                    THEN /\ Raise("shrink", "exc", "createBoot", "RuntimeError", <<>>, 0)
                         /\ cb' = cb
                    ELSE /\ pc' = "sh_resizepart"
                         /\ exc' = exc
                         /\ cb' = [cb EXCEPT !.new_end = NewEnd(e)]
    /\ UNCHANGED <<ctl, sys, logged, ch>>

\* A resize that hands parted the candidate's own path for the disk.
SH_Resizepart_OnCandidate ==
    /\ pc = "sh_resizepart"
    /\ \E out \in Outcomes :
          /\ run_and_stream(out, "createBoot", "parted resizepart",
                            <<cb.shrink_target, cb.part_num, IntToStr(cb.new_end \div 100)>>,
                            TRUE, "shrink", "sh_partprobe")
          /\ tables' = tables
    /\ UNCHANGED <<ctl, blockdevices, logged, cb, ch>>

\* boot.py 185: parted <disk> --script unit MiB resizepart <n> <int(new_end)>MiB
SH_Resizepart ==
    /\ pc = "sh_resizepart"
    /\ \E out \in Outcomes :
          /\ run_and_stream(out, "createBoot", "parted resizepart",
                            <<cb.base_disk, cb.part_num, IntToStr(cb.new_end \div 100)>>,
                            TRUE, "shrink", "sh_partprobe")
          /\ tables' = IF out = 0 /\ cb.base_disk \in DOMAIN tables
                       THEN [tables EXCEPT ![cb.base_disk] =
                                ResizeLine(@, ParseInt(cb.part_num),
                                           100 * (cb.new_end \div 100))]
                       ELSE tables
    /\ UNCHANGED <<ctl, blockdevices, logged, cb, ch>>

\* boot.py 186: partprobe <disk>, not strict
SH_Partprobe ==
    /\ pc = "sh_partprobe"
    /\ \E out \in Outcomes :
          run_and_stream(out, "createBoot", "partprobe", <<cb.base_disk>>, FALSE,
                         "shrink", "sh_settle")
    /\ UNCHANGED <<ctl, sys, logged, cb, ch>>

\* boot.py 187-189: udevadm settle, not strict; then remount if it had unmounted.
SH_Settle ==
    /\ pc = "sh_settle"
    /\ \E out \in Outcomes :
          /\ run_and_stream(out, "createBoot", "udevadm settle", <<>>, FALSE, "shrink",
                            IF Truthy(cb.remount_after) THEN "sh_remount_mkdir"
                            ELSE "cb_mkpart")
          /\ cb' = IF out # -1 /\ ~Truthy(cb.remount_after)
                   THEN [cb EXCEPT !.shrink_ret = "true"] ELSE cb
    /\ UNCHANGED <<ctl, sys, logged, ch>>

\* boot.py 191: mkdir -p <remount_after>, not strict
SH_RemountMkdir ==
    /\ pc = "sh_remount_mkdir"
    /\ \E out \in Outcomes :
          run_and_stream(out, "createBoot", "mkdir -p", <<>>, FALSE, "shrink",
                         "sh_remount_mount")
    /\ UNCHANGED <<ctl, sys, logged, cb, ch>>

\* boot.py 192-193: mount <dev_path> <remount_after>, not strict; return True
SH_RemountMount ==
    /\ pc = "sh_remount_mount"
    /\ \E out \in Outcomes :
          /\ run_and_stream(out, "createBoot", "mount", <<cb.shrink_target>>, FALSE,
                            "shrink", "cb_mkpart")
          /\ cb' = IF out # -1 THEN [cb EXCEPT !.shrink_ret = "true"] ELSE cb
          /\ blockdevices' = IF out = 0
                             THEN SetMount(blockdevices, cb.shrink_target, cb.remount_after)
                             ELSE blockdevices
    /\ UNCHANGED <<ctl, tables, logged, ch>>

\* boot.py 194-196: except Exception: log, return False
SH_Except ==
    /\ pc = "sh_except"
    /\ logged' = logged \cup {"ERR_SHRINK"}
    /\ cb' = [cb EXCEPT !.shrink_ret = "false"]
    /\ pc' = "cb_mkpart"
    /\ UNCHANGED <<ctl, sys, trace, last, exc, ch>>

\* ------------------------------------------ Boot Partition Creator, continued
\* boot.py 229-230: parted <disk> --script mkpart primary ext4 -1050MiB -1MiB
\* When it succeeds the table has a new last partition; the kernel may or may not
\* show it yet.
CB_Mkpart ==
    /\ pc = "cb_mkpart"
    /\ \E out \in Outcomes, visible \in BOOLEAN :
          /\ (out # 0 => visible)
          /\ (out = 0 => cb.base_disk \in DOMAIN tables)
          /\ run_and_stream(out, "createBoot", "parted mkpart", <<cb.base_disk>>, TRUE,
                            "mkpart", "cb_partprobe")
          /\ IF out = 0
             THEN LET lines == tables[cb.base_disk]
                      n == RealLastPart(lines)
                      total == lines[2][2].hund
                  IN  /\ tables' = [tables EXCEPT ![cb.base_disk] =
                            Append(lines, PartLine(IntToStr(n + 1),
                                       [hund |-> total - 100 * ReservedTail, unit |-> "MiB"],
                                       [hund |-> total - 100, unit |-> "MiB"], ""))]
                      /\ blockdevices' =
                            IF visible
                            THEN AddPart(blockdevices, cb.base_disk,
                                         NextPartPath(cb.base_disk, n))
                            ELSE blockdevices
             ELSE UNCHANGED sys
    /\ UNCHANGED <<ctl, logged, cb, ch>>

\* boot.py 231-238: except CalledProcessError: hints, return
CB_MkpartFailed ==
    /\ pc = "cb_mkpart_failed"
    /\ logged' = logged
                 \cup (IF cb.table_type = "msdos" THEN {"HINT_MSDOS"} ELSE {})
                 \cup (IF cb.is_luks THEN {"ERR_MKPART_LUKS"} ELSE {"ERR_MKPART"})
    /\ pc' = "w_boot_done"
    /\ UNCHANGED <<ctl, sys, trace, last, exc, cb, ch>>

\* boot.py 241: partprobe <disk>, not strict
CB_Partprobe ==
    /\ pc = "cb_partprobe"
    /\ \E out \in Outcomes :
          run_and_stream(out, "createBoot", "partprobe", <<cb.base_disk>>, FALSE, "boot",
                         "cb_settle")
    /\ UNCHANGED <<ctl, sys, logged, cb, ch>>

\* boot.py 242: udevadm settle, not strict
CB_Settle ==
    /\ pc = "cb_settle"
    /\ \E out \in Outcomes :
          run_and_stream(out, "createBoot", "udevadm settle", <<>>, FALSE, "boot",
                         "cb_detect")
    /\ UNCHANGED <<ctl, sys, logged, cb, ch>>

\* Every path of the later inventory taken as new.
AllParts(before, after) == PathsOf(after)

\* sorted(after_set - before_set)[-1]: the greatest new path.
NewParts(before, after) == PathsOf(after) \ PathsOf(before)
LastOf(paths) == CHOOSE p \in paths : \A q \in paths : q = p \/ StrLess(q, p)

\* boot.py 244-254: the new partition is the path lsblk shows now and did not before.
CB_DetectNew ==
    /\ pc = "cb_detect"
    /\ \E ok \in BOOLEAN :
          LET after == list_block_devices(ok, blockdevices)
              new_parts == NewParts(cb.parts_before, after)
          IN  /\ trace' = Append(trace, LsblkCall("createBoot"))
              /\ IF new_parts = {}
                 THEN /\ logged' = logged \cup {"ERR_NOT_DETECTED"}
                      /\ cb' = [cb EXCEPT !.after = after, !.detect_done = TRUE]
                      /\ pc' = "w_boot_done"
                 ELSE /\ logged' = logged
                      /\ cb' = [cb EXCEPT !.after = after, !.detect_done = TRUE,
                                          !.new_boot = LastOf(new_parts)]
                      /\ pc' = "cb_mkfs"
    /\ UNCHANGED <<ctl, sys, last, exc, ch>>

\* boot.py 257: mkfs.ext4 -L BOOT <new_boot>
CB_Mkfs ==
    /\ pc = "cb_mkfs"
    /\ \E out \in Outcomes :
          /\ run_and_stream(out, "createBoot", "mkfs.ext4", <<cb.new_boot>>, TRUE, "boot",
                            "cb_mkdir")
          /\ blockdevices' = IF out = 0 THEN SetFstype(blockdevices, cb.new_boot, "ext4")
                             ELSE blockdevices
    /\ UNCHANGED <<ctl, tables, logged, cb, ch>>

\* boot.py 258: mkdir -p /mnt/tmpboot
CB_MkdirTmp ==
    /\ pc = "cb_mkdir"
    /\ \E out \in Outcomes :
          run_and_stream(out, "createBoot", "mkdir -p /mnt/tmpboot", <<>>, TRUE, "boot",
                         "cb_mount")
    /\ UNCHANGED <<ctl, sys, logged, cb, ch>>

\* boot.py 259: mount <new_boot> /mnt/tmpboot
CB_MountTmp ==
    /\ pc = "cb_mount"
    /\ \E out \in Outcomes :
          run_and_stream(out, "createBoot", "mount /mnt/tmpboot", <<cb.new_boot>>, TRUE,
                         "boot", "cb_copy")
    /\ UNCHANGED <<ctl, sys, logged, cb, ch>>

\* boot.py 261: cp -a /boot/. /mnt/tmpboot/
CB_Copy ==
    /\ pc = "cb_copy"
    /\ \E out \in Outcomes :
          run_and_stream(out, "createBoot", "cp -a /boot", <<>>, TRUE, "boot", "cb_umount")
    /\ UNCHANGED <<ctl, sys, logged, cb, ch>>

\* boot.py 262: umount /mnt/tmpboot
CB_UmountTmp ==
    /\ pc = "cb_umount"
    /\ \E out \in Outcomes :
          run_and_stream(out, "createBoot", "umount /mnt/tmpboot", <<>>, TRUE, "boot",
                         "cb_blkid")
    /\ UNCHANGED <<ctl, sys, logged, cb, ch>>

\* The UUID blkid prints for a device.
UuidOf(path) == <<"uuid">> \o path

\* boot.py 265-266: blkid -s UUID -o value <new_boot>
CB_Blkid ==
    /\ pc = "cb_blkid"
    /\ \E out \in Outcomes :
          /\ check_output(out, "createBoot", "blkid", <<cb.new_boot>>, "blkid", "cb_fstab")
          /\ cb' = IF out = 0 THEN [cb EXCEPT !.boot_uuid = UuidOf(cb.new_boot)] ELSE cb
    /\ UNCHANGED <<ctl, sys, logged, ch>>

\* An except clause that logs the missing UUID and goes on to the append.
CB_BlkidFailed_GoesOn ==
    /\ pc = "cb_blkid_failed"
    /\ logged' = logged \cup {"ERR_UUID"}
    /\ pc' = "cb_fstab"
    /\ UNCHANGED <<ctl, sys, trace, last, exc, cb, ch>>

\* boot.py 267-269: except Exception: log, return
CB_BlkidFailed ==
    /\ pc = "cb_blkid_failed"
    /\ logged' = logged \cup {"ERR_UUID"}
    /\ pc' = "w_boot_done"
    /\ UNCHANGED <<ctl, sys, trace, last, exc, cb, ch>>

\* boot.py 270-271: echo 'UUID=<uuid> /boot ext4 defaults 0 2' >> /etc/fstab
CB_Fstab ==
    /\ pc = "cb_fstab"
    /\ \E out \in Outcomes :
          /\ run_and_stream(out, "createBoot", "fstab append /boot", <<cb.boot_uuid>>, TRUE,
                            "boot", "w_boot_done")
          /\ logged' = IF out = 0 THEN logged \cup {"OK_BOOT"} ELSE logged
    /\ UNCHANGED <<ctl, sys, cb, ch>>

\* -------------------------------------------------------- System integration
\* A command of the integration step that changes nothing else in the model.
Integrate(here, cmd, args, check, next) ==
    /\ pc = here
    /\ \E out \in Outcomes :
          run_and_stream(out, "systemIntegration", cmd, args, check, "worker", next)
    /\ UNCHANGED <<ctl, sys, logged, cb, ch>>

\* if run_chroot: uuid = blkid -s UUID -o value <device>
W_Chroot ==
    /\ pc = "w_chroot"
    /\ IF cfg.run_chroot
       THEN /\ announced' = Announce("systemIntegration", 4)
            /\ \E out \in Outcomes :
                  /\ check_output(out, "systemIntegration", "blkid", <<cfg.device>>,
                                  "worker", "ch_open")
                  /\ ch' = IF out = 0 THEN [ch EXCEPT !.uuid = UuidOf(cfg.device)] ELSE ch
       ELSE /\ pc' = "w_done"
            /\ UNCHANGED <<announced, trace, last, exc, ch>>
    /\ UNCHANGED <<world, runs, cfg, tmpfiles, keyfile, status, report, logged, plan,
                   start_btn, cb>>

\* cryptsetup open <device> cryptroot --key-file <keyfile>
CH_Open == Integrate("ch_open", "cryptsetup open", <<cfg.device>>, TRUE, "ch_fsck")
\* e2fsck -f /dev/mapper/cryptroot, not strict
CH_Fsck == Integrate("ch_fsck", "e2fsck -f", <<cryptroot>>, FALSE, "ch_resize")
\* resize2fs /dev/mapper/cryptroot, not strict
CH_Resize == Integrate("ch_resize", "resize2fs", <<cryptroot>>, FALSE, "ch_mkdir")
\* mkdir -p /mnt/root, not strict
CH_Mkdir == Integrate("ch_mkdir", "mkdir -p /mnt/root", <<>>, FALSE, "ch_mount")
\* mount /dev/mapper/cryptroot /mnt/root, not strict
CH_Mount ==
    /\ pc = "ch_mount"
    /\ \E out \in Outcomes :
          /\ run_and_stream(out, "systemIntegration", "mount /mnt/root", <<cryptroot>>,
                            FALSE, "worker", "ch_list")
          /\ ch' = [ch EXCEPT !.root_mounted = (out = 0)]
    /\ UNCHANGED <<ctl, sys, logged, cb>>

\* parts = list_block_devices(); boot_uuid = None; efi_uuid = None
CH_ListParts ==
    /\ pc = "ch_list"
    /\ \E ok \in BOOLEAN :
          /\ ch' = [ch EXCEPT !.parts = list_block_devices(ok, blockdevices), !.idx = 1]
          /\ trace' = Append(trace, LsblkCall("systemIntegration"))
    /\ pc' = "ch_loop"
    /\ UNCHANGED <<ctl, sys, last, exc, logged, cb>>

IsEfiPart(p) == p.type = "part" /\ p.fstype \in {"vfat", "efi"}
IsExtPart(p) == p.type = "part" /\ p.fstype \in {"ext2", "ext3", "ext4"}

\* for p in parts: which branch the partition takes.
CH_Loop ==
    /\ pc = "ch_loop"
    /\ IF ch.idx > Len(ch.parts) THEN pc' = "ch_bind_dev" /\ ch' = ch
       ELSE IF IsEfiPart(ch.parts[ch.idx]) THEN pc' = "ch_efi_blkid" /\ ch' = ch
       ELSE IF IsExtPart(ch.parts[ch.idx]) THEN pc' = "ch_boot_blkid" /\ ch' = ch
       ELSE pc' = "ch_loop" /\ ch' = [ch EXCEPT !.idx = @ + 1]
    /\ UNCHANGED <<ctl, sys, trace, last, exc, logged, cb>>

\* efi_uuid = blkid -s UUID -o value <p.path>
CH_EfiBlkid ==
    /\ pc = "ch_efi_blkid"
    /\ \E out \in Outcomes :
          /\ check_output(out, "systemIntegration", "blkid", <<ch.parts[ch.idx].path>>,
                          "worker", "ch_efi_mkdir")
          /\ ch' = IF out = 0 THEN [ch EXCEPT !.efi_uuid = UuidOf(ch.parts[ch.idx].path)]
                   ELSE ch
    /\ UNCHANGED <<ctl, sys, logged, cb>>

\* mkdir -p /mnt/root/boot/efi, not strict
CH_EfiMkdir ==
    Integrate("ch_efi_mkdir", "mkdir -p /mnt/root/boot/efi", <<>>, FALSE, "ch_efi_mount")

\* mount UUID=<efi_uuid> /mnt/root/boot/efi, not strict; next partition
CH_EfiMount ==
    /\ pc = "ch_efi_mount"
    /\ \E out \in Outcomes :
          /\ run_and_stream(out, "systemIntegration", "mount /mnt/root/boot/efi",
                            <<ch.efi_uuid>>, FALSE, "worker", "ch_loop")
          /\ ch' = IF out # -1 THEN [ch EXCEPT !.idx = @ + 1] ELSE ch
    /\ UNCHANGED <<ctl, sys, logged, cb>>

\* boot_uuid = blkid -s UUID -o value <p.path>
CH_BootBlkid ==
    /\ pc = "ch_boot_blkid"
    /\ \E out \in Outcomes :
          /\ check_output(out, "systemIntegration", "blkid", <<ch.parts[ch.idx].path>>,
                          "worker", "ch_boot_mkdir")
          /\ ch' = IF out = 0 THEN [ch EXCEPT !.boot_uuid = UuidOf(ch.parts[ch.idx].path)]
                   ELSE ch
    /\ UNCHANGED <<ctl, sys, logged, cb>>

\* mkdir -p /mnt/root/boot, not strict
CH_BootMkdir ==
    Integrate("ch_boot_mkdir", "mkdir -p /mnt/root/boot", <<>>, FALSE, "ch_boot_mount")

\* mount UUID=<boot_uuid> /mnt/root/boot, not strict; next partition
CH_BootMount ==
    /\ pc = "ch_boot_mount"
    /\ \E out \in Outcomes :
          /\ run_and_stream(out, "systemIntegration", "mount /mnt/root/boot",
                            <<ch.boot_uuid>>, FALSE, "worker", "ch_loop")
          /\ ch' = IF out # -1 THEN [ch EXCEPT !.idx = @ + 1] ELSE ch
    /\ UNCHANGED <<ctl, sys, logged, cb>>

\* mount --bind /dev /mnt/root/dev, not strict
CH_BindDev == Integrate("ch_bind_dev", "mount --bind /dev", <<>>, FALSE, "ch_bind_proc")
\* mount --bind /proc /mnt/root/proc, not strict
CH_BindProc == Integrate("ch_bind_proc", "mount --bind /proc", <<>>, FALSE, "ch_bind_sys")
\* mount --bind /sys /mnt/root/sys, not strict
CH_BindSys == Integrate("ch_bind_sys", "mount --bind /sys", <<>>, FALSE, "ch_bind_run")
\* mount --bind /run /mnt/root/run, not strict
CH_BindRun == Integrate("ch_bind_run", "mount --bind /run", <<>>, FALSE, "ch_crypttab")

\* chroot /mnt/root: echo 'cryptroot UUID=<uuid> none luks' > /etc/crypttab, not strict
CH_Crypttab ==
    Integrate("ch_crypttab", "chroot crypttab", <<ch.uuid>>, FALSE, "ch_fstab")

\* chroot /mnt/root: echo '/dev/mapper/cryptroot / ext4 defaults 0 1' > /etc/fstab,
\* not strict.  Only boot.py goes on to the /boot entry.
CH_Fstab ==
    Integrate("ch_fstab", "chroot fstab root", <<>>, FALSE,
              IF frontEnd = "boot" /\ ch.boot_uuid # <<>> THEN "ch_fstab_boot"
              ELSE "ch_initramfs")

\* boot.py 596-599: chroot: echo 'UUID=<boot_uuid> /boot ext4 defaults 0 2' >> /etc/fstab
CH_FstabBoot ==
    Integrate("ch_fstab_boot", "chroot fstab /boot", <<ch.boot_uuid>>, FALSE,
              "ch_initramfs")

\* chroot /mnt/root: update-initramfs -u -k all, strict
CH_Initramfs ==
    Integrate("ch_initramfs", "chroot update-initramfs", <<>>, TRUE, "ch_grub_cmdline")

\* chroot /mnt/root: set GRUB_CMDLINE_LINUX in /etc/default/grub, strict.  In
\* boot.py the step ends here (608-609); the other front ends go on to GRUB.
CH_GrubCmdline ==
    /\ pc = "ch_grub_cmdline"
    /\ \E out \in Outcomes :
          /\ run_and_stream(out, "systemIntegration", "chroot grub cmdline", <<ch.uuid>>,
                            TRUE, "worker",
                            IF frontEnd = "boot" THEN "w_done" ELSE "ch_grub_install")
          /\ plan' = IF frontEnd = "boot" /\ out = 0 THEN [plan EXCEPT !.value = @ + 100]
                     ELSE plan
    /\ UNCHANGED <<frontEnd, asked, exit_code, devices, runs, cfg, tmpfiles, keyfile, status, report,
                   start_btn, announced, sys, logged, cb, ch>>

\* pyrus.py 312-313: base_disk = device.rstrip('0123456789'); grub-install <base_disk>
CH_GrubInstall ==
    Integrate("ch_grub_install", "chroot grub-install", <<rstrip_base_disk(cfg.device)>>,
              TRUE, "ch_update_grub")

\* pyrus.py 314: chroot /mnt/root: update-grub, strict
CH_UpdateGrub == Integrate("ch_update_grub", "chroot update-grub", <<>>, TRUE, "w_done")

\* ------------------------------------------------------------ specification
Next ==
    \/ Start
    \/ W_Plan \/ W_MkTemp \/ W_WriteKey \/ W_Fsck \/ W_Minimize
    \/ W_Boot \/ W_BootWarn \/ W_BootDone
    \/ CB_Begin \/ CB_Candidate \/ CB_TableInfo \/ CB_ShrinkOrSkip
    \/ SH_Begin \/ SH_Umount \/ SH_Fsck \/ SH_Resize2fs \/ SH_PartNum \/ SH_LastPart
    \/ SH_End \/ SH_Resizepart \/ SH_Partprobe \/ SH_Settle \/ SH_RemountMkdir
    \/ SH_RemountMount \/ SH_Except
    \/ CB_Mkpart \/ CB_MkpartFailed \/ CB_Partprobe \/ CB_Settle \/ CB_DetectNew
    \/ CB_Mkfs \/ CB_MkdirTmp \/ CB_MountTmp \/ CB_Copy \/ CB_UmountTmp \/ CB_Blkid
    \/ CB_BlkidFailed \/ CB_Fstab
    \/ W_Reencrypt \/ W_Chroot
    \/ CH_Open \/ CH_Fsck \/ CH_Resize \/ CH_Mkdir \/ CH_Mount \/ CH_ListParts
    \/ CH_Loop \/ CH_EfiBlkid \/ CH_EfiMkdir \/ CH_EfiMount \/ CH_BootBlkid
    \/ CH_BootMkdir \/ CH_BootMount \/ CH_BindDev \/ CH_BindProc \/ CH_BindSys
    \/ CH_BindRun \/ CH_Crypttab \/ CH_Fstab \/ CH_FstabBoot \/ CH_Initramfs
    \/ CH_GrubCmdline \/ CH_GrubInstall \/ CH_UpdateGrub
    \/ W_Done \/ W_ExceptCPE \/ W_ExceptExc \/ W_Finally

Spec == Init /\ [][Next]_vars

\* ------------------------------------- the inventory and the inspector alone
\* The device list against every small tree the kernel can report: the devices
\* appear one node at a time, and the operator refreshes the list.
MaxNodes == 3
PlugNodes ==
    { Node(NameOf(sdb), "disk", "8G", sdb, None, None, <<>>),
      Node(NameOf(sda), "disk", "20G", sda, None, None, <<>>),
      Node(NameOf(sda1), "part", "4G", NoPath, "/", "ext4", <<>>),
      Node(NameOf(loop0), "loop", "2G", loop0, None, "squashfs", <<>>) }

\* What the lsblk call can come to: its JSON tree; the tool missing; a non-zero
\* exit; output that is not JSON; JSON of another shape (a list at the top, or
\* "blockdevices" holding strings or numbers instead of objects).
Replies == {"ok", "missing", "nonzero", "unparsable", "misshapen"}

RECURSIVE CountNodes(_)
CountNodes(nodes) ==
    IF nodes = <<>> THEN 0
    ELSE 1 + CountNodes(Head(nodes).children) + CountNodes(Tail(nodes))

\* The places of a forest where a node can be appended: <<>> is the top level,
\* <<i>> \o a the place a below the i-th node.
RECURSIVE Addrs(_)
Addrs(nodes) ==
    {<<>>} \cup UNION {{<<i>> \o a : a \in Addrs(nodes[i].children)} : i \in 1..Len(nodes)}

RECURSIVE Plug(_, _, _)
Plug(nodes, addr, n) ==
    IF addr = <<>> THEN Append(nodes, n)
    ELSE [nodes EXCEPT ![Head(addr)].children = Plug(@, Tail(addr), n)]

\* What neither the inventory nor the inspector assigns.
qfixed == <<frontEnd, runs, cfg, tmpfiles, keyfile, announced, status, report,
            logged, plan, start_btn, ch, asked, exit_code>>
qrest == <<qfixed, trace>>

\* A window just opened on a machine without devices; parted has printed nothing.
InitQuery ==
    /\ frontEnd \in {"boot", "pyrus"}
    /\ blockdevices = <<>>
    /\ tables = (sda :> <<>>)
    /\ devices = <<>>
    /\ runs = 0
    /\ pc = "idle"
    /\ cfg = NoCfg
    /\ tmpfiles = 0
    /\ keyfile = FALSE
    /\ announced = <<>>
    /\ trace = <<>>
    /\ last = NoCmd
    /\ exc = NoExc
    /\ status = "idle"
    /\ report = NoExc
    /\ logged = {}
    /\ plan = NoPlan
    /\ start_btn = TRUE
    /\ cb = NoCb
    /\ ch = NoCh
    /\ asked = NoAsk
    /\ exit_code = <<>>

\* The kernel gains a device: a node appears at the top level or below a node.
HotPlug ==
    /\ pc = "idle"
    /\ CountNodes(blockdevices) < MaxNodes
    /\ \E a \in Addrs(blockdevices), n \in PlugNodes :
          blockdevices' = Plug(blockdevices, a, n)
    /\ UNCHANGED <<devices, pc, last, exc, tables, cb, qrest>>

\* refresh_devices -> list_block_devices.  Only check_output and json.loads are
\* inside the try: a reply of another shape raises from data.get / node.get (an
\* AttributeError), which nothing catches; the list on screen stays as it was.
refresh_devices ==
    /\ pc = "idle"
    /\ \E reply \in Replies :
          /\ last' = [NoCmd EXCEPT !.cmd = "lsblk", !.args = <<reply>>]
          /\ IF reply = "misshapen"
             THEN /\ exc' = [NoExc EXCEPT !.kind = "AttributeError", !.cmd = "lsblk"]
                  /\ pc' = "refresh_raised"
                  /\ UNCHANGED devices
             ELSE /\ devices' = list_block_devices(reply = "ok", blockdevices)
                  /\ exc' = NoExc
                  /\ pc' = "refreshed"
    /\ UNCHANGED <<blockdevices, tables, cb, qrest>>

\* The caller has seen the answer (or the exception) and its locals are gone:
\* the next call can come.
BackToIdle ==
    /\ pc \in {"refreshed", "refresh_raised", "end_returned", "end_raised",
               "new_end_planned", "info_returned", "info_raised"}
    /\ pc' = "idle"
    /\ last' = NoCmd
    /\ exc' = NoExc
    /\ cb' = NoCb
    /\ UNCHANGED <<blockdevices, devices, tables, qrest>>

NextInventory == HotPlug \/ refresh_devices \/ BackToIdle

SpecInventory == InitQuery /\ [][NextInventory]_vars

\* The listing of /dev/sda grows one line at a time: partitions 1, 2 and 10, a
\* free-space line (parted numbers them 1), a line whose end is not in MiB, an
\* empty line, the header line and the BYT; line.
MaxLines == 3
ListingLines ==
    { PartLine(<<"1">>, Size(1), Size(10000), "ext4"),
      PartLine(<<"2">>, Size(10000), Size(20000), "ext4"),
      PartLine(<<"1", "0">>, Size(20000), Size(20400), "ext4"),
      FreeLine(Size(0), Size(1)),
      PartLine(<<"1">>, [hund |-> 2, unit |-> "MiB"], [hund |-> 50, unit |-> "MiB"], "ext2"),
      << <<"2">>, Size(10000), [hund |-> 1950, unit |-> "GiB"],
         [hund |-> 950, unit |-> "GiB"], "ext4", "", "" >>,
      << <<>> >>,
      HeaderLine(sda, Size(20480), "gpt"),
      BytLine }

PartedPrints ==
    /\ pc = "idle"
    /\ blockdevices = <<>>
    /\ Len(tables[sda]) < MaxLines
    /\ \E l \in ListingLines : tables' = (sda :> Append(tables[sda], l))
    /\ trace' = <<>>
    /\ UNCHANGED <<blockdevices, devices, pc, last, exc, cb, qfixed>>

\* The answers of the last two calls that read a listing, the newest last.
Remember(calls, n, end) ==
    (IF calls = <<>> THEN <<>> ELSE <<calls[Len(calls)]>>) \o <<[n |-> n, end |-> end]>>

\* A reading that takes the first line out of the listing.
GetPartitionEnd_Consuming ==
    /\ pc = "idle"
    /\ \E ok \in BOOLEAN, n \in {<<"1">>, <<"2">>, <<"1", "0">>} :
          LET end == IF ok THEN get_partition_end_mib(tables[sda], sda, n) ELSE -1
          IN  /\ last' = [NoCmd EXCEPT !.cmd = "parted print", !.args = <<n>>,
                                       !.out = end]
              /\ exc' = IF ~ok THEN [NoExc EXCEPT !.kind = "CalledProcessError",
                                                  !.cmd = "parted print"]
                        ELSE IF end = -1 THEN [NoExc EXCEPT !.kind = "RuntimeError"]
                        ELSE NoExc
              /\ trace' = IF ok THEN Remember(trace, n, end) ELSE trace
              /\ pc' = IF end = -1 THEN "end_raised" ELSE "end_returned"
    /\ tables' = (sda :> IF tables[sda] = <<>> THEN <<>> ELSE Tail(tables[sda]))
    /\ UNCHANGED <<blockdevices, devices, cb, qfixed>>

\* _get_partition_end_mib(disk, part_num): check_output raises when parted
\* fails; otherwise the listing is read.  Nothing but the answer is assigned.
GetPartitionEnd ==
    /\ pc = "idle"
    /\ \E ok \in BOOLEAN, n \in {<<"1">>, <<"2">>, <<"1", "0">>} :
          LET end == IF ok THEN get_partition_end_mib(tables[sda], sda, n) ELSE -1
          IN  /\ last' = [NoCmd EXCEPT !.cmd = "parted print", !.args = <<n>>,
                                       !.out = end]
              /\ exc' = IF ~ok THEN [NoExc EXCEPT !.kind = "CalledProcessError",
                                                  !.cmd = "parted print"]
                        ELSE IF end = -1 THEN [NoExc EXCEPT !.kind = "RuntimeError"]
                        ELSE NoExc
              /\ trace' = IF ok THEN Remember(trace, n, end) ELSE trace
              /\ pc' = IF end = -1 THEN "end_raised" ELSE "end_returned"
    /\ UNCHANGED <<blockdevices, devices, tables, cb, qfixed>>

\* boot.py 183: new_end = max(1.0, current_end - 1050.0), from the answer of
\* _get_partition_end_mib.
PlanNewEnd ==
    /\ pc = "end_returned"
    /\ cb' = [cb EXCEPT !.new_end = NewEnd(last.out)]
    /\ pc' = "new_end_planned"
    /\ UNCHANGED <<blockdevices, devices, tables, last, exc, qrest>>

\* _get_table_type_and_last_part(disk): the same call; the listing is read to
\* its end and the pair is returned, max_part being None (-1) when no line gave
\* a number.
GetTableInfo ==
    /\ pc = "idle"
    /\ \E ok \in BOOLEAN :
          LET info == get_table_type_and_last_part(tables[sda], sda)
          IN  /\ last' = [NoCmd EXCEPT !.cmd = "parted print"]
              /\ exc' = IF ok THEN NoExc
                        ELSE [NoExc EXCEPT !.kind = "CalledProcessError",
                                           !.cmd = "parted print"]
              /\ cb' = IF ok THEN [cb EXCEPT !.table_type = info.table_type,
                                             !.last_part = info.last_part]
                       ELSE cb
              /\ pc' = IF ok THEN "info_returned" ELSE "info_raised"
    /\ UNCHANGED <<blockdevices, devices, tables, qrest>>

NextInspector ==
    PartedPrints \/ GetPartitionEnd \/ PlanNewEnd \/ GetTableInfo \/ BackToIdle

SpecInspector == InitQuery /\ [][NextInspector]_vars

\* ------------------------------------------------------------------ properties
StepOrder == <<"fsck", "minimize", "createBoot", "reencrypt", "systemIntegration">>
StepIdx(name) ==
    CASE name = "fsck" -> 1
      [] name = "minimize" -> 2
      [] name = "createBoot" -> 3
      [] name = "reencrypt" -> 4
      [] name = "systemIntegration" -> 5
      [] OTHER -> 0

\* The step is enabled by the operator's options; reencrypt has no option.
Selected(name) ==
    CASE name = "fsck" -> cfg.run_fsck
      [] name = "minimize" -> cfg.run_minimize
      [] name = "createBoot" -> cfg.run_boot
      [] name = "systemIntegration" -> cfg.run_chroot
      [] OTHER -> name = "reencrypt"

AnnouncedNames == {announced[i].name : i \in 1..Len(announced)}
Invoked(cmd) == \E i \in 1..Len(trace) : trace[i].cmd = cmd
Returned == pc \in {"idle", "exited"} /\ runs > 0

\* C1: the steps of a run are the enabled ones, each at most once and in the order
\* fsck, minimize, createBoot, reencrypt, systemIntegration; the commands of the
\* run follow the same order, each belonging to a step already begun; a run that
\* reaches done has executed every enabled step, and reencrypt in any case.
C1_StepOrder ==
    /\ \A i \in 1..Len(announced) :
          /\ StepIdx(announced[i].name) > 0
          /\ Selected(announced[i].name)
    /\ \A i \in 1..(Len(announced) - 1) :
          StepIdx(announced[i].name) < StepIdx(announced[i + 1].name)
    /\ \A i \in 1..Len(trace) : trace[i].step \in AnnouncedNames
    /\ \A i \in 1..(Len(trace) - 1) :
          StepIdx(trace[i].step) <= StepIdx(trace[i + 1].step)
    /\ status = "done" =>
          /\ \A k \in 1..Len(StepOrder) :
                Selected(StepOrder[k]) =>
                   /\ StepOrder[k] \in AnnouncedNames
                   /\ \E i \in 1..Len(trace) : trace[i].step = StepOrder[k]
          /\ Invoked("cryptsetup reencrypt")

C1_Witness ==
    /\ status = "done"
    /\ cfg.run_fsck /\ cfg.run_minimize /\ cfg.run_boot /\ cfg.run_chroot
    /\ Len(announced) = 5
    /\ Invoked("cryptsetup reencrypt")

\* C2: once the pipeline routine has returned, no temporary key file is left on
\* disk, whatever the exit path.
C2_KeyFileRemoved == Returned => tmpfiles = 0

\* A strict command has exited non-zero and is the most recent command.
StrictFailed == last.check /\ last.out > 0

\* The run stops at that command and reports it.
FatalFor(c) ==
    /\ pc \in {"w_except_cpe", "w_finally", "idle", "exited"}
    /\ status # "done"
    /\ trace # <<>>
    /\ trace[Len(trace)].cmd = c.cmd
    /\ trace[Len(trace)].args = c.args
    /\ (c.step \in {"fsck", "minimize"} => ~Invoked("cryptsetup reencrypt"))
    /\ pc # "w_except_cpe" =>
          /\ status = "failed"
          /\ report.kind = "cpe"
          /\ report.cmd = c.cmd
          /\ report.args = c.args
          /\ report.rc = c.out

\* The commands the pipeline runs with check=True.
StrictCommands ==
    {"e2fsck -f -y", "resize2fs -M", "cryptsetup reencrypt", "cryptsetup open",
     "chroot update-initramfs", "chroot grub cmdline", "chroot grub-install",
     "chroot update-grub"}

\* C3 as stated: whenever a strict command exits non-zero the pipeline fails, runs
\* no further command, and reports the command's argument vector and exit code.
C3_EveryStrictFailureFatal ==
    (StrictFailed /\ last.cmd \in StrictCommands) => FatalFor(last)

\* C3: a strict command outside the createBoot step that exits non-zero makes the
\* pipeline fail; no further command runs (cryptsetup reencrypt never follows a
\* failed fsck or minimize), and the report carries that command's argument vector
\* and exit code.
C3_StrictFailureFatal == (StrictFailed /\ last.step # "createBoot") => FatalFor(last)

C3_Witness ==
    /\ Returned
    /\ status = "failed"
    /\ cfg.run_fsck
    /\ report.kind = "cpe"
    /\ report.cmd = "resize2fs -M"
    /\ report.rc = 1
    /\ Len(trace) = 2

\* C4: a failure inside createBoot never fails the pipeline: an exception leaving
\* create_boot_partition_if_missing is logged as a warning, nothing raised in the
\* step reaches the worker's except clauses, and a run that began the step invokes
\* cryptsetup reencrypt before it ends.
C4_BootFailureTolerated ==
    /\ (pc = "w_boot_done" /\ exc.to = "w_boot_warn") => "WARN_BOOT" \in logged
    /\ pc \in {"w_except_cpe", "w_except_exc"} => exc.step # "createBoot"
    /\ status = "failed" => report.step # "createBoot"
    /\ ("createBoot" \in AnnouncedNames /\ pc \in {"w_done", "w_finally", "idle", "exited"})
          => Invoked("cryptsetup reencrypt")

C4_Witness ==
    /\ status = "done"
    /\ "WARN_BOOT" \in logged
    /\ Invoked("cryptsetup reencrypt")

ShrinkPcs ==
    {"sh_begin", "sh_umount", "sh_fsck", "sh_resize2fs", "sh_partnum", "sh_lastpart",
     "sh_end", "sh_resizepart", "sh_partprobe", "sh_settle", "sh_remount_mkdir",
     "sh_remount_mount", "sh_except"}
ShrinkCmds == SelectSeq(trace, LAMBDA c : c.fn = "_shrink_partition_free_space")

\* C5: called with the mountpoint "/", the Shrink Planner returns failure and runs
\* no external command.
C5_RootNotShrunk ==
    cb.shrink_mountpoint = "/" =>
       /\ ShrinkCmds = <<>>
       /\ pc \notin (ShrinkPcs \ {"sh_begin"})
       /\ cb.shrink_ret \in {"none", "false"}
       /\ (pc = "cb_mkpart" /\ ~cb.is_luks) =>
             cb.shrink_ret = "false" /\ "ERR_ROOT_MOUNTED" \in logged

C5_Witness ==
    /\ pc = "cb_mkpart"
    /\ cb.shrink_mountpoint = "/"
    /\ cb.shrink_ret = "false"
    /\ ShrinkCmds = <<>>

\* The disks of the tree that have the partition at path among their children.
ParentDisks(nodes, path) ==
    {PathOfNode(nodes[i]) : i \in {k \in 1..Len(nodes) :
        \E c \in 1..Len(nodes[k].children) : PathOfNode(nodes[k].children[c]) = path}}

\* The shrink candidate is a partition of a disk whose highest partition number
\* is another one.
CandidateNotLast ==
    /\ ParentDisks(blockdevices, cb.shrink_target) # {}
    /\ \A d \in ParentDisks(blockdevices, cb.shrink_target) :
          /\ d \in DOMAIN tables
          /\ ParseInt(TrailingDigits(cb.shrink_target)) # RealLastPart(tables[d])

\* C6: while the candidate is not the last partition of its disk, the Shrink
\* Planner never gets past the check, never runs parted resizepart, leaves the
\* partition table as it was, and returns failure.
C6_NotLastRefused ==
    (pc \in ShrinkPcs \cup {"cb_mkpart"} /\ CandidateNotLast) =>
       /\ pc \notin {"sh_end", "sh_resizepart", "sh_partprobe", "sh_settle",
                     "sh_remount_mkdir", "sh_remount_mount"}
       /\ ~Invoked("parted resizepart")
       /\ \E w \in Worlds : tables = w.tables
       /\ (pc = "cb_mkpart" /\ ~cb.is_luks) => cb.shrink_ret = "false"

C6_Witness ==
    /\ pc = "cb_mkpart"
    /\ CandidateNotLast
    /\ "ERR_NOT_LAST" \in logged
    /\ cb.shrink_ret = "false"
    /\ Invoked("resize2fs -M")

\* C7: a run with fsck and minimize enabled, createBoot and systemIntegration
\* disabled and every command succeeding runs exactly e2fsck -f -y <device>,
\* resize2fs -M <device>, cryptsetup reencrypt --reduce-device-size <R> <device>,
\* in this order, with R = "32M" when the size field was left empty.
C7_FsckMinimizeTrace ==
    (status = "done" /\ cfg.run_fsck /\ cfg.run_minimize /\ ~cfg.run_boot /\ ~cfg.run_chroot)
       => /\ [i \in 1..Len(trace) |-> <<trace[i].cmd, trace[i].args>>]
               = << <<"e2fsck -f -y", <<cfg.device>> >>,
                    <<"resize2fs -M", <<cfg.device>> >>,
                    <<"cryptsetup reencrypt",
                      << IF cfg.reduce_input = <<>> THEN <<"3", "2", "M">>
                         ELSE <<"6", "4", "M">>,
                         cfg.device >> >> >>
          /\ \A i \in 1..Len(trace) : trace[i].started

C7_Witness ==
    /\ Returned
    /\ status = "done"
    /\ cfg.run_fsck /\ cfg.run_minimize /\ ~cfg.run_boot /\ ~cfg.run_chroot
    /\ cfg.reduce_input = <<>>
    /\ Len(trace) = 3

\* C8: when the target is a LUKS container, create_boot_partition_if_missing runs
\* no command of the Shrink Planner and does not end without having invoked
\* parted mkpart.
C8_LuksGoesToMkpart ==
    cb.is_luks =>
       /\ ShrinkCmds = <<>>
       /\ pc \notin ShrinkPcs
       /\ pc \in {"w_boot_warn", "w_boot_done"} => Invoked("parted mkpart")

FormatCmds ==
    {"mkfs.ext4", "mkdir -p /mnt/tmpboot", "mount /mnt/tmpboot", "cp -a /boot",
     "umount /mnt/tmpboot", "blkid", "fstab append /boot"}

\* C9: when the inventory taken after the partition creation has no path that the
\* inventory taken before lacks, create_boot_partition_if_missing logs that the
\* new partition was not detected and ends: no mkfs.ext4, mount, copy or fstab
\* append follows, the inventory query is its last command.
C9_NotDetectedNoFormat ==
    (cb.detect_done /\ PathsOf(cb.after) \subseteq PathsOf(cb.parts_before)) =>
       /\ "ERR_NOT_DETECTED" \in logged
       /\ pc = "w_boot_done"
       /\ \A i \in 1..Len(trace) : trace[i].cmd \notin FormatCmds
       /\ trace[Len(trace)].cmd = "lsblk"

C9_Witness ==
    /\ cb.detect_done
    /\ cb.parts_before # <<>>
    /\ PathsOf(cb.after) = PathsOf(cb.parts_before)
    /\ Invoked("parted mkpart")
    /\ "ERR_NOT_DETECTED" \in logged

\* The commands of the trace named by cmds, in the order they were invoked.
Picked(cmds) == SelectSeq([i \in 1..Len(trace) |-> trace[i].cmd], LAMBDA c : c \in cmds)

\* C10: a run with systemIntegration enabled that reaches done has invoked
\* update-initramfs, the kernel command line update, grub-install and update-grub
\* in the scratch root, once each and in this order.
C10_BootloaderInstalled ==
    (status = "done" /\ cfg.run_chroot) =>
       Picked({"chroot update-initramfs", "chroot grub cmdline", "chroot grub-install",
               "chroot update-grub"})
          = <<"chroot update-initramfs", "chroot grub cmdline", "chroot grub-install",
              "chroot update-grub">>

\* C11: in every front end, once the integration step goes on to regenerate the
\* boot image after the discovery resolved the UUID of an ext2/ext3/ext4
\* partition, the /boot entry for that UUID has been appended to the filesystem
\* table of the scratch root, after the root entry was written.
C11_BootEntryAppended ==
    (Invoked("chroot update-initramfs") /\ ch.boot_uuid # <<>>) =>
       \E i, j, k \in 1..Len(trace) :
          /\ i < j /\ j < k
          /\ trace[i].cmd = "chroot fstab root"
          /\ trace[j].cmd = "chroot fstab /boot"
          /\ trace[j].args = <<ch.boot_uuid>>
          /\ trace[k].cmd = "chroot update-initramfs"

\* The preconditions of a launch, read from the answers given to start() / main().
Preconditions ==
    /\ asked.root
    /\ devices # <<>>
    /\ asked.sel \in PathsOf(devices)
    /\ asked.p1 # ""
    /\ asked.p1 = asked.p2
    /\ asked.confirm
    /\ asked.refused = ""

\* C12: no command is invoked, no key file is created and no worker is launched
\* unless the process ran as root, a device of a non-empty inventory was selected,
\* the passphrase was non-empty and equal to its confirmation and the operator
\* confirmed; the worker's device is the selected one.  After a declined
\* confirmation or an empty inventory nothing has run.
C12_NothingBeforePreconditions ==
    /\ (trace # <<>> \/ tmpfiles > 0 \/ keyfile \/ runs > 0 \/ pc \notin {"idle", "exited"})
          => (Preconditions /\ cfg.device = asked.sel)
    /\ asked.refused \in {"REFUSE_CONFIRM", "REFUSE_NO_DEVICE"}
          => /\ trace = <<>> /\ tmpfiles = 0 /\ runs = 0
             /\ pc \in {"idle", "exited"}
             /\ status = "idle"

C12_Witness ==
    /\ Preconditions
    /\ tmpfiles > 0
    /\ Invoked("cryptsetup reencrypt")

C12_WitnessDeclined ==
    /\ asked.refused = "REFUSE_CONFIRM"
    /\ asked.root /\ asked.p1 = "s3cret" /\ asked.p1 = asked.p2
    /\ trace = <<>> /\ runs = 0

\* C13: every tool a launched pipeline invokes was detected as present before the
\* first command, so no command of a run fails to start because its executable
\* is missing.
C13_AllToolsDetected ==
    \A i \in 1..Len(trace) : trace[i].started

\* The partitions the inventory shows mounted at /boot.
BootPartitions(nodes) ==
    {d.path : d \in {e \in {WalkAll(nodes)[i] : i \in 1..Len(WalkAll(nodes))} :
                        e.type = "part" /\ e.mountpoint = "/boot"}}

\* C14: while the machine has a dedicated partition serving as /boot,
\* create_boot_partition_if_missing invokes no parted mkpart and appends no
\* /boot entry to /etc/fstab.
C14_OnlyIfMissing ==
    BootPartitions(blockdevices) # {} =>
       /\ ~Invoked("parted mkpart")
       /\ ~Invoked("fstab append /boot")

\* Every node of the forest, of whatever kind and depth.
RECURSIVE AllNodes(_)
AllNodes(nodes) ==
    IF nodes = <<>> THEN {}
    ELSE {Head(nodes)} \cup AllNodes(Head(nodes).children) \cup AllNodes(Tail(nodes))

\* How many disk or part nodes of the forest have the entry e.
RECURSIVE CountEntry(_, _)
CountEntry(nodes, e) ==
    IF nodes = <<>> THEN 0
    ELSE (IF Head(nodes).type \in {"disk", "part"} /\ DeviceEntry(Head(nodes)) = e
          THEN 1 ELSE 0)
         + CountEntry(Head(nodes).children, e) + CountEntry(Tail(nodes), e)

ListedOk == pc = "refreshed" /\ last.args = <<"ok">>

\* C15: the list returned for a tree is in non-decreasing order of path and holds,
\* as often as the tree does, exactly the entries of its disk and part nodes at
\* any depth; the nodes of other kinds give no entry, those below them do.
C15_SortedDisksAndParts ==
    ListedOk =>
       /\ \A i \in 1..(Len(devices) - 1) : ~StrLess(devices[i + 1].path, devices[i].path)
       /\ \A n \in AllNodes(blockdevices) :
             Cardinality({i \in 1..Len(devices) : devices[i] = DeviceEntry(n)})
                = CountEntry(blockdevices, DeviceEntry(n))
       /\ \A i \in 1..Len(devices) : CountEntry(blockdevices, devices[i]) > 0

\* A loop device with a partition below a disk below it: the partition and the
\* disk are listed, the loop device is not.
C15_Witness ==
    /\ ListedOk
    /\ Len(blockdevices) = 1
    /\ blockdevices[1].type = "loop"
    /\ Len(blockdevices[1].children) = 1
    /\ blockdevices[1].children[1].type = "disk"
    /\ Len(blockdevices[1].children[1].children) = 1
    /\ blockdevices[1].children[1].children[1].type = "part"
    /\ Len(devices) = 2
    /\ devices[1].path = sda1

\* C16: the inventory call never raises, and every failed query gives the empty
\* list.
C16_NeverRaises ==
    /\ pc # "refresh_raised"
    /\ (pc = "refreshed" /\ last.args # <<"ok">>) => devices = <<>>

\* The lines of the listing whose first field is n and whose end is in MiB.
MatchingLines(lines, n) ==
    {i \in 1..Len(lines) :
        Len(lines[i]) >= 3 /\ lines[i][1] = n /\ lines[i][3].unit = "MiB"}

\* C19: on a listing that parted printed, _get_partition_end_mib(disk, n) raises
\* when no line has n as first field and an end in MiB, and otherwise returns the
\* end of the first such line.
C19_EndOfFirstMatch ==
    (pc \in {"end_returned", "end_raised"} /\ exc.kind # "CalledProcessError") =>
       LET M == MatchingLines(tables[sda], last.args[1])
       IN  IF M = {} THEN pc = "end_raised" /\ exc.kind = "RuntimeError"
           ELSE /\ pc = "end_returned"
                /\ \E i \in M : /\ \A j \in M : i <= j
                                /\ last.out = tables[sda][i][3].hund

\* Partition 2 listed twice, first with its end in GiB: the MiB line is taken.
C19_Witness ==
    /\ pc = "end_returned"
    /\ last.args = << <<"2">> >>
    /\ Len(tables[sda]) = 3
    /\ tables[sda][1][1] = <<"2">> /\ tables[sda][1][3].unit = "GiB"
    /\ tables[sda][2][1] = <<"1">>
    /\ tables[sda][3][1] = <<"2">> /\ tables[sda][3][3].unit = "MiB"
    /\ last.out = 2000000

\* The numbers of the lines of the listing that start with a digit.
DigitLineNumbers(lines) ==
    {ParseInt(lines[i][1]) : i \in {j \in 1..Len(lines) : LineStartsWithDigit(lines[j])}}

\* C20: on a listing that parted printed, _get_table_type_and_last_part reports
\* the greatest number of the lines that start with a digit, and does not return
\* when there is no such line.
C20_MaxOrNoPartitions ==
    pc = "info_returned" =>
       /\ DigitLineNumbers(tables[sda]) # {}
       /\ cb.last_part \in DigitLineNumbers(tables[sda])
       /\ \A k \in DigitLineNumbers(tables[sda]) : k <= cb.last_part

\* Every strict command of the run exited with zero and every command could be
\* started.
AllStrictSucceeded ==
    \A i \in 1..Len(trace) : trace[i].started /\ ~trace[i].failed

StepNumbersInOrder ==
    frontEnd = "boot" =>
       \A i \in 1..Len(announced) :
          /\ announced[i].k = i
          /\ announced[i].n = Len(StepsOf(cfg))
          /\ announced[i].n >= 1
          /\ announced[i].k <= announced[i].n

\* Neither the progress value nor the step counter goes down in this step.
NoStepBack == plan'.value >= plan.value /\ plan'.step_no >= plan.step_no

\* C21 as stated: from the launch until the worker has returned no step of the
\* run lowers the progress value or the step counter, and the announced step
\* numbers are 1, 2, ... up to at most the number of enabled steps.
C21_NeverDecreases ==
    /\ []StepNumbersInOrder
    /\ [][pc # "idle" => NoStepBack]_vars

\* C21: the same up to the finally clause, which puts the progress value back
\* to 0 (and leaves the step counter) before the worker returns.
C21_NeverDecreasesUntilFinally ==
    /\ []StepNumbersInOrder
    /\ [][pc \notin {"idle", "w_finally"} => NoStepBack]_vars
    /\ [][(pc = "w_finally" /\ frontEnd = "boot")
             => (plan'.value = 0 /\ plan'.step_no = plan.step_no)]_vars

C21_Witness ==
    /\ frontEnd = "boot"
    /\ pc = "w_finally"
    /\ status = "done"
    /\ Len(announced) = 5
    /\ announced[5].k = 5
    /\ plan.value = 500

\* The positions of the worker inside the integration step.
IntegrationPcs ==
    {"ch_open", "ch_fsck", "ch_resize", "ch_mkdir", "ch_mount", "ch_list", "ch_loop",
     "ch_efi_blkid", "ch_efi_mkdir", "ch_efi_mount", "ch_boot_blkid", "ch_boot_mkdir",
     "ch_boot_mount", "ch_bind_dev", "ch_bind_proc", "ch_bind_sys", "ch_bind_run",
     "ch_crypttab", "ch_fstab", "ch_fstab_boot", "ch_initramfs", "ch_grub_cmdline",
     "ch_grub_install", "ch_update_grub"}

SoftCommands ==
    {"e2fsck -f", "resize2fs", "mkdir -p /mnt/root", "mount /mnt/root",
     "mkdir -p /mnt/root/boot/efi", "mount /mnt/root/boot/efi", "mkdir -p /mnt/root/boot",
     "mount /mnt/root/boot", "mount --bind /dev", "mount --bind /proc",
     "mount --bind /sys", "mount --bind /run", "chroot crypttab", "chroot fstab root",
     "chroot fstab /boot"}

\* The most recent command is a sub-step of the integration run with check=False,
\* and it exited non-zero.
SoftFailedNow ==
    /\ last.step = "systemIntegration"
    /\ ~last.check
    /\ last.out # 0
    /\ trace # <<>>
    /\ trace[Len(trace)].cmd = last.cmd

\* The UUID query of the discovery loop (blkid on a boot or EFI partition) has
\* just failed.
DiscoveryFailedNow ==
    /\ last.step = "systemIntegration"
    /\ last.cmd = "blkid"
    /\ last.out # 0
    /\ ch.idx >= 1

CaughtAsUnexpected ==
    /\ pc \in {"w_except_exc", "w_finally", "idle", "exited"}
    /\ status # "done"
    /\ "OK_DONE" \notin logged
    /\ pc # "w_except_exc" =>
          /\ status = "failed"
          /\ "ERR_UNEXPECTED" \in logged
          /\ "ERR_CMD" \notin logged
          /\ report = exc

\* C23 as stated: every exception other than a strict command's non-zero exit,
\* in whatever step it is raised, ends in the second except clause of the
\* pipeline routine and in the failed state.
C23_EveryFaultFails == exc.kind = "exc" => CaughtAsUnexpected

\* C23: the same for the exceptions raised outside the createBoot step; those
\* raised inside it are caught by the step itself.
C23_FaultOutsideBootFails ==
    (exc.kind = "exc" /\ exc.step # "createBoot") => CaughtAsUnexpected

C23_Witness ==
    /\ Returned
    /\ status = "failed"
    /\ report.kind = "exc"
    /\ report.cmd = "blkid"
    /\ report.step = "systemIntegration"
    /\ "ERR_UNEXPECTED" \in logged
    /\ Invoked("cryptsetup reencrypt")

\* A call of _get_partition_end_mib is being made in this step.
EndQueried == pc = "idle" /\ pc' \in {"end_returned", "end_raised"}

ShrinkOrder ==
    <<"umount", "e2fsck -f -y", "resize2fs -M", "parted resizepart", "partprobe",
      "udevadm settle", "mount">>
ShrinkSteps ==
    SelectSeq(ShrinkCmds, LAMBDA c : \E i \in 1..Len(ShrinkOrder) : ShrinkOrder[i] = c.cmd)
ExitedZero(c) == c.check /\ c.started /\ ~c.failed
ShrinkStep(cmd) == CHOOSE i \in 1..Len(ShrinkSteps) : ShrinkSteps[i].cmd = cmd
ShrinkRan(cmd) == \E i \in 1..Len(ShrinkSteps) : ShrinkSteps[i].cmd = cmd

\* C25: the Shrink Planner runs umount, e2fsck -f -y, resize2fs -M, parted
\* resizepart, partprobe, udevadm settle, mount in this order, each at most once
\* and none skipped in between; umount only for a mounted candidate and then
\* first, mount only after a umount that exited 0; resize2fs -M only after
\* e2fsck exited 0; parted resizepart only after resize2fs -M exited 0, with the
\* partition number resolved and equal to the last partition of the table.
C25_ShrinkOrder ==
    cb # NoCb =>
       LET steps == ShrinkSteps
           n == Len(steps)
           first == IF Truthy(cb.shrink_mountpoint) THEN 1 ELSE 2
       IN  /\ n > 0 => cb.shrink_mountpoint # "/"
           /\ n <= (IF first = 1 THEN 7 ELSE 5)
           /\ [i \in 1..n |-> steps[i].cmd] = SubSeq(ShrinkOrder, first, first + n - 1)
           /\ \A i \in 1..(n - 1) :
                 steps[i].cmd \in {"umount", "e2fsck -f -y", "resize2fs -M",
                                   "parted resizepart"} => ExitedZero(steps[i])
           /\ n >= 5 - first =>
                 /\ cb.part_num # <<>>
                 /\ ~NotLastPartition(cb.part_num, cb.last_part)

C25_Witness ==
    /\ pc = "w_boot_done"
    /\ [i \in 1..Len(ShrinkSteps) |-> ShrinkSteps[i].cmd] = ShrinkOrder
    /\ cb.shrink_ret = "true"
    /\ Truthy(cb.shrink_mountpoint)

\* The last command was run by the Shrink Planner and an exception came of it.
RaisedInShrink ==
    /\ trace # <<>>
    /\ trace[Len(trace)].fn = "_shrink_partition_free_space"
    /\ exc.kind # "none"
    /\ exc.cmd \in {trace[Len(trace)].cmd, "RuntimeError"}

\* C26: an exception raised inside the Shrink Planner goes to its own except
\* clause and comes out as a false return, never reaching the caller's
\* handlers; the planner returns true only if parted resizepart exited 0.
C26_ShrinkNeverRaises ==
    cb # NoCb =>
       /\ RaisedInShrink =>
             /\ exc.to = "sh_except"
             /\ pc \in {"sh_except", "cb_mkpart"}
             /\ pc = "cb_mkpart" => cb.shrink_ret = "false"
       /\ (pc = "cb_mkpart" /\ ~cb.is_luks) => cb.shrink_ret \in {"true", "false"}
       /\ cb.shrink_ret = "true" =>
             /\ ShrinkRan("parted resizepart")
             /\ ExitedZero(ShrinkSteps[ShrinkStep("parted resizepart")])

C26_Witness ==
    /\ pc = "cb_mkpart"
    /\ RaisedInShrink
    /\ exc.kind = "exc"
    /\ exc.cmd = "partprobe"
    /\ ExitedZero(ShrinkSteps[ShrinkStep("parted resizepart")])
    /\ cb.shrink_ret = "false"

\* C27: when the Shrink Planner has unmounted the candidate and has returned
\* (by success, refusal or caught exception), the candidate is mounted at the
\* remembered mountpoint again.
C27_RemountedOnReturn ==
    (pc = "cb_mkpart" /\ ~cb.is_luks /\ Truthy(cb.remount_after)) =>
       \A n \in AllNodes(blockdevices) :
          PathOfNode(n) = cb.shrink_target => n.mountpoint = cb.remount_after

\* The planner returned after a refusal or a caught exception and the candidate
\* it had unmounted is still unmounted, although no mount command was tried.
C27_LeftUnmounted ==
    /\ pc = "cb_mkpart"
    /\ Truthy(cb.remount_after)
    /\ cb.shrink_ret = "false"
    /\ ~ShrinkRan("mount")
    /\ \E n \in AllNodes(blockdevices) :
          PathOfNode(n) = cb.shrink_target /\ n.mountpoint = None

\* C28: the new end handed to parted resizepart is max(1, current end - 1050)
\* MiB cut to an integer, at least 1 MiB and never beyond the current end.
C28_NewEndWithinCurrent ==
    pc = "new_end_planned" =>
       LET new_end == 100 * (cb.new_end \div 100)
       IN  /\ cb.new_end = (IF last.out - 100 * 1050 > 100 THEN last.out - 100 * 1050
                            ELSE 100)
           /\ new_end >= 100
           /\ new_end <= last.out

\* The same without the upper limit.
C28_NewEndAtLeastOne ==
    pc = "new_end_planned" =>
       /\ cb.new_end = (IF last.out - 100 * 1050 > 100 THEN last.out - 100 * 1050 ELSE 100)
       /\ 100 * (cb.new_end \div 100) >= 100

\* The commands run inside create_boot_partition_if_missing, the Shrink Planner's
\* included, and the places of parted mkpart among them.
BootCmds == SelectSeq(trace, LAMBDA c : c.step = "createBoot")
MkpartAt == {i \in 1..Len(BootCmds) : BootCmds[i].cmd = "parted mkpart"}

\* C29: a call of create_boot_partition_if_missing attempts parted mkpart
\* exactly once, after the Shrink Planner has returned or was skipped, whatever
\* it returned; when mkpart exits non-zero no command follows it.
C29_MkpartExactlyOnce ==
    /\ \A i \in MkpartAt :
          /\ cb.is_luks \/ cb.shrink_ret \in {"true", "false"}
          /\ \A j \in 1..Len(BootCmds) :
                BootCmds[j].fn = "_shrink_partition_free_space" => j < i
          /\ BootCmds[i].failed => i = Len(BootCmds)
    /\ (pc = "w_boot_done" /\ BootCmds # <<>>) => Cardinality(MkpartAt) = 1

\* The same, for the calls that the table query of boot.py 219 did not end.
C29_MkpartOnceIfReached ==
    /\ \A i \in MkpartAt :
          /\ cb.is_luks \/ cb.shrink_ret \in {"true", "false"}
          /\ \A j \in 1..Len(BootCmds) :
                BootCmds[j].fn = "_shrink_partition_free_space" => j < i
          /\ BootCmds[i].failed => i = Len(BootCmds)
    /\ Cardinality(MkpartAt) <= 1
    /\ (pc = "w_boot_done" /\ BootCmds # <<>> /\ cb.table_type # "") =>
          Cardinality(MkpartAt) = 1

\* The call ended at the table query and parted mkpart was never attempted.
C29_EndedBeforeMkpart ==
    /\ pc = "w_boot_done"
    /\ "WARN_BOOT" \in logged
    /\ exc.cmd = "parted print"
    /\ MkpartAt = {}

\* mkpart was attempted after the planner had returned false and after it had
\* returned true.
C29_AfterFalse ==
    pc = "cb_partprobe" /\ cb.shrink_ret = "false" /\ Cardinality(MkpartAt) = 1

\* The path of the partition that this call's parted mkpart created: the
\* highest-numbered partition of the base disk once mkpart has exited 0.
OwnNewPartition == NextPartPath(cb.base_disk, RealLastPart(tables[cb.base_disk]) - 1)
MkfsCalls == SelectSeq(trace, LAMBDA c : c.cmd = "mkfs.ext4")

\* C30: the device formatted with mkfs.ext4 is the greatest path of the later
\* inventory that the earlier inventory lacks, and it is the partition this
\* call's parted mkpart created, also when an inventory query returned nothing.
C30_FormatsOwnPartition ==
    \A i \in 1..Len(MkfsCalls) :
       /\ MkfsCalls[i].args = <<LastOf(NewParts(cb.parts_before, cb.after))>>
       /\ MkfsCalls[i].args = <<OwnNewPartition>>

\* The first half alone.
C30_FormatsLastNew ==
    \A i \in 1..Len(MkfsCalls) :
       MkfsCalls[i].args = <<LastOf(NewParts(cb.parts_before, cb.after))>>

\* mkfs.ext4 was started on a device that was there before the call, after the
\* first inventory query had failed.
C30_FormattedExisting ==
    /\ MkfsCalls # <<>>
    /\ MkfsCalls[1].started
    /\ cb.parts_before = <<>>
    /\ MkfsCalls[1].args # <<OwnNewPartition>>
    /\ \E n \in AllNodes(blockdevices) :
          PathOfNode(n) = MkfsCalls[1].args[1] /\ n.type = "disk"

\* The commands of a call that create and fill the new partition, in the order
\* of boot.py 230-270, and the places of the append to /etc/fstab.
CreateOrder ==
    <<"parted mkpart", "mkfs.ext4", "mkdir -p /mnt/tmpboot", "mount /mnt/tmpboot",
      "cp -a /boot", "umount /mnt/tmpboot", "blkid", "fstab append /boot">>
CreateSteps ==
    SelectSeq(BootCmds, LAMBDA c : c.fn = "create_boot_partition_if_missing"
                                   /\ \E k \in 1..Len(CreateOrder) : CreateOrder[k] = c.cmd)
FstabAppendAt == {i \in 1..Len(CreateSteps) : CreateSteps[i].cmd = "fstab append /boot"}

\* C31: a call appends "UUID=<uuid of the new partition> /boot ext4 defaults 0 2"
\* to /etc/fstab at most once, and only after parted mkpart, the detection of
\* the new partition, mkfs.ext4, the mount at /mnt/tmpboot, the copy of /boot,
\* the unmount and blkid have exited 0 in this order, each once; when one of
\* them fails no append is made.
C31_FstabAppendLast ==
    (cb # NoCb /\ Invoked("fstab append /boot")) =>
       LET steps == CreateSteps
           names == [k \in 1..Len(steps) |-> steps[k].cmd]
       IN  /\ names = CreateOrder
           /\ \A k \in 1..7 : ExitedZero(steps[k])
           /\ cb.detect_done /\ cb.new_boot # <<>>
           /\ steps[8].args = <<UuidOf(cb.new_boot)>>
           /\ steps[7].args = <<cb.new_boot>>

C31_Witness ==
    /\ pc = "w_boot_done"
    /\ "OK_BOOT" \in logged
    /\ FstabAppendAt = {8}
    /\ ExitedZero(CreateSteps[8])
    /\ CreateSteps[8].args = <<UuidOf(cb.new_boot)>>

\* C32: the disk grub-install is run on is the base disk of the target device by
\* the naming convention of _get_base_disk_from_device: a trailing pN dropped
\* from NVMe/MMC paths, trailing digits dropped from other paths.
C32_BootloaderOnBaseDisk ==
    \A i \in 1..Len(trace) :
       trace[i].cmd = "chroot grub-install" =>
          trace[i].args = <<get_base_disk_from_device(cfg.device)>>

\* grub-install was run for the target /dev/nvme0n1p1 on "/dev/nvme0n1p".
C32_WrongDisk ==
    /\ last.cmd = "chroot grub-install"
    /\ cfg.device = nvme0n1p1
    /\ last.args = << <<"/dev/", "n", "v", "m", "e", "0", "n", "1", "p">> >>

\* This step is a call of run_and_stream: one entry more in the trace, for the
\* command that last now names (check_output runs parted print and blkid).
RunnerStep ==
    /\ Len(trace') = Len(trace) + 1
    /\ last'.cmd = trace'[Len(trace')].cmd
    /\ last'.cmd \notin {"", "parted print", "blkid"}
RaisedCpe ==
    /\ exc'.kind = "cpe" /\ exc'.cmd = last'.cmd /\ exc'.args = last'.args
    /\ exc'.rc = last'.out /\ pc' = exc'.to
RaisedOsError ==
    /\ exc'.kind = "exc" /\ exc'.cmd = last'.cmd /\ exc'.args = last'.args
    /\ pc' = exc'.to
ReturnedRc == exc' = exc

\* C33: run_and_stream logs the argument vector before it starts the command,
\* raises CalledProcessError with the command and the exit code if and only if
\* check is on and the exit status is not 0, and with check off returns without
\* raising.
C33_RaisesIffStrictNonZero ==
    [][RunnerStep =>
         /\ trace'[Len(trace')].args = last'.args
         /\ RaisedCpe <=> (last'.check /\ last'.out \notin {0, -1})
         /\ ~last'.check => ReturnedRc]_vars

\* The same for the commands that could be started; when Popen cannot start
\* the program its OSError leaves run_and_stream whatever check says, after the
\* argument vector was logged.
C33_RaisesIffStrictNonZeroOrNotStarted ==
    [][RunnerStep =>
         /\ trace'[Len(trace')].args = last'.args
         /\ trace'[Len(trace')].started <=> last'.out # -1
         /\ RaisedCpe <=> (last'.check /\ last'.out \notin {0, -1})
         /\ RaisedOsError <=> last'.out = -1
         /\ (~last'.check /\ last'.out # -1) => ReturnedRc
         /\ ReturnedRc <=> ~(RaisedCpe \/ RaisedOsError)]_vars

C33_Witness ==
    /\ last.cmd = "partprobe"
    /\ ~last.check
    /\ last.out = 1
    /\ pc = "sh_settle"
    /\ exc.kind = "none"

\* The places of the partitions mounted at "/" in an inventory.
RootPartsAt(inv) ==
    {i \in 1..Len(inv) : inv[i].mountpoint = "/" /\ inv[i].type = "part"}
\* The candidate and mountpoint that the choice of boot.py 198-216 should give
\* for an inventory and a target.
ChosenFor(inv, device) ==
    IF RootPartsAt(inv) # {}
    THEN LET i == CHOOSE k \in RootPartsAt(inv) : \A m \in RootPartsAt(inv) : k <= m
         IN  <<inv[i].path, "/">>
    ELSE IF \E k \in 1..Len(inv) : inv[k].path = device /\ Truthy(inv[k].mountpoint)
         THEN LET i == CHOOSE k \in 1..Len(inv) :
                          /\ inv[k].path = device /\ Truthy(inv[k].mountpoint)
                          /\ \A m \in 1..(k - 1) :
                                ~(inv[m].path = device /\ Truthy(inv[m].mountpoint))
              IN  <<device, inv[i].mountpoint>>
         ELSE <<device, None>>

\* C34: the shrink candidate is the first partition of the inventory mounted at
\* "/" when there is one, otherwise the target with its own mountpoint; so when
\* the inventory has a partition mounted at "/" and the target is no LUKS
\* container, the Shrink Planner runs no command and the partition table is as
\* it was when parted mkpart is attempted.
C34_RootPreferredNothingShrunk ==
    /\ [](pc \in ({"cb_tableinfo", "cb_shrink_or_skip", "cb_mkpart"} \cup ShrinkPcs) =>
             /\ <<cb.shrink_target, cb.shrink_mountpoint>> = ChosenFor(cb.current, cfg.device)
             /\ (RootPartsAt(cb.current) # {} /\ ~cb.is_luks) =>
                   /\ ShrinkCmds = <<>>
                   /\ pc \notin (ShrinkPcs \ {"sh_begin"})
                   /\ ~Invoked("parted resizepart"))
    /\ [][(pc = "sh_begin" /\ RootPartsAt(cb.current) # {}) =>
             (pc' = "cb_mkpart" /\ tables' = tables /\ trace' = trace)]_vars

C34_Witness ==
    /\ pc = "cb_mkpart"
    /\ RootPartsAt(cb.current) # {}
    /\ cb.shrink_mountpoint = "/"
    /\ cb.shrink_target = sda1
    /\ cfg.device = sda
    /\ ~cb.is_luks
    /\ ShrinkCmds = <<>>
    /\ cb.shrink_ret = "false"

\* The Shrink Planner is at or past its last-partition check.
PastPartNum ==
    pc \in {"sh_lastpart", "sh_end", "sh_resizepart", "sh_partprobe", "sh_settle",
            "sh_remount_mkdir", "sh_remount_mount"}
DiskCmds == SelectSeq(ShrinkCmds, LAMBDA c : c.cmd \in {"parted print", "parted resizepart"})

\* C35: when the Shrink Planner reaches its last-partition check and its
\* geometry query, the disk it queries and resizes is the base disk of the
\* shrink candidate: the disk that holds it when it is a partition.
C35_OwnDiskInspected ==
    PastPartNum =>
       /\ ParentDisks(blockdevices, cb.shrink_target) \subseteq {cb.base_disk}
       /\ cb.base_disk = get_base_disk_from_device(cb.shrink_target)
       /\ \A i \in 1..Len(DiskCmds) : DiskCmds[i].args[1] = cb.base_disk

C35_Witness ==
    /\ pc = "sh_partprobe"
    /\ ParentDisks(blockdevices, cb.shrink_target) = {sda}
    /\ cb.shrink_target = sda2
    /\ cb.base_disk = sda
    /\ Len(DiskCmds) = 3
    /\ DiskCmds[3].cmd = "parted resizepart"
    /\ ExitedZero(DiskCmds[3])

C35_WitnessNvme ==
    /\ pc = "sh_lastpart"
    /\ cb.shrink_target = nvme0n1p1
    /\ cb.base_disk = nvme0n1

\* The size of partition num in a listing, in hundredths of MiB (0 when the
\* listing has no such partition).
RECURSIVE PartSize(_, _)
PartSize(lines, num) ==
    IF lines = <<>> THEN 0
    ELSE IF IsPartLine(Head(lines)) /\ Head(lines)[1] = num
         THEN Head(lines)[3].hund - Head(lines)[2].hund
         ELSE PartSize(Tail(lines), num)

\* C36: when the Shrink Planner has returned true, the shrunk partition is at
\* least as large as the minimized filesystem it holds.
C36_PartitionHoldsFilesystem ==
    (cb.shrink_ret = "true" /\ cb.base_disk \in DOMAIN tables) =>
       PartSize(tables[cb.base_disk], cb.part_num) >= cb.fs_size

\* The planner returned true with /dev/sda2 cut to 8950 MiB around a filesystem
\* of 9500 MiB.
C36_CutBelowFilesystem ==
    /\ pc = "cb_mkpart"
    /\ cb.shrink_ret = "true"
    /\ cb.shrink_target = sda2
    /\ cb.fs_size = 100 * 9500
    /\ PartSize(tables[sda], <<"2">>) = 100 * 8950

\* The commands run through chroot /mnt/root.
ChrootCmds ==
    {"chroot crypttab", "chroot fstab root", "chroot fstab /boot",
     "chroot update-initramfs", "chroot grub cmdline", "chroot grub-install",
     "chroot update-grub"}

\* C37: the commands run inside the scratch root are invoked only when
\* /dev/mapper/cryptroot is mounted at /mnt/root.
C37_ChrootOnlyWhenMounted ==
    (\E i \in 1..Len(trace) : trace[i].cmd \in ChrootCmds) => ch.root_mounted

\* The crypttab rewrite was started in /mnt/root after mount had failed.
C37_ChrootUnmounted ==
    /\ last.cmd = "chroot crypttab"
    /\ last.out = 0
    /\ ~ch.root_mounted
    /\ Invoked("mount /mnt/root")

\* The worker thread is scheduled and every external command it waits for
\* terminates: a step of the pipeline that can be taken is taken.
WorkerStep == pc # "idle" /\ Next
SpecLive == Spec /\ WF_vars(WorkerStep)

Terminal == pc \in {"idle", "exited"} /\ status \in {"done", "failed"}

\* C38: every pipeline run eventually ends in done or failed, with the key file
\* removed and, in the graphical front ends, the start control enabled again.
C38_EndsCleanedUp ==
    (status = "running") ~>
       (Terminal /\ tmpfiles = 0 /\ (frontEnd # "Tpyrus" => start_btn))

\* The same without the key file.
C38_Ends ==
    (status = "running") ~> (Terminal /\ (frontEnd # "Tpyrus" => start_btn))

====
